---------------------------- MODULE SegmentProofs ----------------------------
(***************************************************************************)
(* Segments: the allocator that divides one, and the pointers into them.   *)
(*                                                                         *)
(* SegmentExact is an invariant of the segment allocator, for a segment of *)
(* any size and any requests, sizes and alignments.  The argument is about *)
(* the extents of the blocks: an operation replaces a run of adjacent      *)
(* blocks by others that fill the same bytes.                              *)
(*                                                                         *)
(* PointersExact is an invariant of global pointers, for any ranks, local  *)
(* teams, mappings and devices.  The argument is about words and about the *)
(* sorted table of the peers: a pointer always means a byte of a segment,  *)
(* and every process finds that byte where it maps the segment.            *)
(*                                                                         *)
(* HeapExact is an invariant of the shared heap, for any segment, element  *)
(* types and width of size_t, up to a request that the code lets wrap.     *)
(* The argument is about the words in blocks: a call touches the words of  *)
(* its own block only, so the header below and the count in every other    *)
(* block are still what deallocate will read.                              *)
(***************************************************************************)
EXTENDS SegmentAllocator, GlobalPtr, SharedHeap, SequenceTheorems, FiniteSetTheorems,
        NaturalsInduction, WellFoundedInduction, TLAPS

-----------------------------------------------------------------------------
(* The inductive invariant                                                 *)

Block   == [b : Nat, hole : BOOLEAN]
Held    == [b : Nat, size : Nat, align : Nat \ {0}]

\* Where block i of the list B ends, if the segment ends at E; and its extent.
NextOf(B, E, i) == IF i = Len(B) THEN E ELSE B[i + 1].b
Ext(B, E, i)    == [b |-> B[i].b, e |-> NextOf(B, E, i), hole |-> B[i].hole]
Extents(B, E)   == {Ext(B, E, i) : i \in DOMAIN B}

\* A list of blocks in the order of their addresses, up to E.
Ascends(B, E) ==
  /\ B \in Seq(Block) /\ B # <<>> /\ E \in Nat
  /\ \A i \in DOMAIN B : B[i].b < E
  /\ \A i, j \in DOMAIN B : i < j => B[i].b < B[j].b

\* The two indexes, holes and hunks, over the extents X.
HolesOf(X) == {<<x.e - x.b, x.b>> : x \in {y \in X : y.hole}}
HunksOf(X) == {x.b : x \in {y \in X : ~ y.hole}}

\* No hole borders on another.
HolesApart(X) == \A x, y \in X : x.hole /\ y.hole => x.e # y.b

\* What the user holds, H, in the extents X of a segment at base: a hunk each, which
\* is large enough and aligned.
HeldIn(X, H, base) ==
  /\ H \subseteq Held /\ IsFiniteSet(H)
  /\ \A a \in H : \E x \in X : ~ x.hole /\ x.b = a.b /\ a.b + a.size <= x.e
  /\ \A x \in X : ~ x.hole => \E a \in H : x.b = a.b
  /\ \A a, c \in H : a.b = c.b => a = c
  /\ \A a \in H : (base + a.b) % a.align = 0

\* The segment s, in use, with the allocations H.
Sound(s, H) ==
  /\ s = [base |-> s.base, endpost |-> s.endpost, blocks |-> s.blocks, holes |-> s.holes, hunks |-> s.hunks]
  /\ s.base = SegBase /\ s.endpost = SegSize
  /\ Ascends(s.blocks, s.endpost) /\ s.blocks[1].b = 0
  /\ LET X == Extents(s.blocks, s.endpost)
     IN  /\ s.holes = HolesOf(X) /\ s.hunks = HunksOf(X)
         /\ HolesApart(X) /\ HeldIn(X, H, s.base)

\* One of the two allocators has the segment.
SegInv ==
  /\ seg = [own |-> seg.own, spare |-> seg.spare]
  /\ \/ Sound(seg.own, segHeld) /\ seg.spare = NoSegment
     \/ Sound(seg.spare, segHeld) /\ seg.own = NoSegment
-----------------------------------------------------------------------------
(* Rounding up                                                             *)

LEMMA Multiples ==
  ASSUME NEW a \in Nat \ {0}, NEW q \in Int
  PROVE  (q * a) % a = 0
<1>1. PICK d \in Int, r \in Int : d = (q * a) \div a /\ r = (q * a) % a
  OBVIOUS
<1>2. q * a = d * a + r /\ 0 <= r /\ r < a
  BY <1>1
<1>3. ~ (q <= d - 1)
  <2>1. SUFFICES ASSUME q <= d - 1
                 PROVE  FALSE
    OBVIOUS
  <2>2. q * a <= (d - 1) * a
    BY <2>1
  <2>3. (d - 1) * a = d * a - a
    OBVIOUS
  <2>4. QED
    BY <1>2, <2>2, <2>3
<1>4. ~ (q >= d + 1)
  <2>1. SUFFICES ASSUME q >= d + 1
                 PROVE  FALSE
    OBVIOUS
  <2>2. q * a >= (d + 1) * a
    BY <2>1
  <2>3. (d + 1) * a = d * a + a
    OBVIOUS
  <2>4. QED
    BY <1>2, <2>2, <2>3
<1>5. q = d
  BY <1>3, <1>4
<1>6. QED
  BY <1>1, <1>2, <1>5

LEMMA UpFacts ==
  ASSUME NEW p \in Nat, NEW a \in Nat \ {0}
  PROVE  Up(p, a) \in Nat /\ Up(p, a) >= p /\ Up(p, a) % a = 0
<1>1. PICK n \in Nat : n = p + a - 1
  OBVIOUS
<1>2. PICK q \in Int, r \in Int : q = n \div a /\ r = n % a
  OBVIOUS
<1>3. n = q * a + r /\ 0 <= r /\ r < a
  BY <1>2
<1>4. Up(p, a) = q * a
  BY <1>1, <1>2 DEF Up
<1>5. PICK m \in Int : m = q * a
  OBVIOUS
<1>6. m >= p
  BY <1>1, <1>3, <1>5
<1>7. m % a = 0
  BY <1>5, Multiples
<1>8. QED
  BY <1>4, <1>5, <1>6, <1>7
-----------------------------------------------------------------------------
(* Replacing a run of blocks                                               *)

\* C is B, of n blocks, with the m blocks M for the blocks from i to j, d blocks more.
Spliced(B, C, i, j, M, n, m, d) ==
  /\ B \in Seq(Block) /\ C \in Seq(Block) /\ M \in Seq(Block)
  /\ n = Len(B) /\ m = Len(M) /\ n \in Nat /\ m \in Nat \ {0}
  /\ i \in 1 .. n /\ j \in i .. n /\ d \in Int /\ d = m - (j - i + 1)
  /\ Len(C) = n + d
  /\ \A k \in 1 .. i - 1 : C[k] = B[k]
  /\ \A k \in 1 .. m : C[i - 1 + k] = M[k]
  /\ \A k \in j + 1 .. n : C[k + d] = B[k]

\* The places of C: in front of the run, in it, behind it.
LEMMA SplicePlaces ==
  ASSUME NEW B, NEW C, NEW i, NEW j, NEW M, NEW n, NEW m, NEW d,
         Spliced(B, C, i, j, M, n, m, d)
  PROVE  /\ DOMAIN B = 1 .. n /\ DOMAIN M = 1 .. m /\ DOMAIN C = 1 .. n + d
         /\ \A k \in DOMAIN C : \/ k \in 1 .. i - 1
                                \/ \E h \in 1 .. m : k = i - 1 + h
                                \/ \E h \in j + 1 .. n : k = h + d
         /\ \A k \in 1 .. i - 1 : k \in DOMAIN C
         /\ \A k \in 1 .. m : i - 1 + k \in DOMAIN C
         /\ \A k \in j + 1 .. n : k + d \in DOMAIN C
<1>5. n \in Int /\ m \in Int /\ i \in Int /\ j \in Int /\ d \in Int
  BY DEF Spliced
<1>6. 1 <= m /\ 1 <= i /\ i <= j /\ j <= n /\ d = m - (j - i + 1)
  BY DEF Spliced
<1>1. DOMAIN B = 1 .. n /\ DOMAIN M = 1 .. m /\ DOMAIN C = 1 .. n + d
  BY LenProperties DEF Spliced
<1>2. /\ \A k \in 1 .. i - 1 : k \in DOMAIN C
      /\ \A k \in 1 .. m : i - 1 + k \in DOMAIN C
      /\ \A k \in j + 1 .. n : k + d \in DOMAIN C
  BY <1>1, <1>5, <1>6
<1>3. ASSUME NEW k \in DOMAIN C
      PROVE  \/ k \in 1 .. i - 1
             \/ \E h \in 1 .. m : k = i - 1 + h
             \/ \E h \in j + 1 .. n : k = h + d
  <2>1. k \in Nat /\ 1 <= k /\ k <= n + d
    BY <1>1, <1>5, <1>6
  <2>2. CASE k < i
    BY <1>5, <1>6, <2>1, <2>2
  <2>3. CASE i <= k /\ k <= i - 1 + m
    <3>1. k - i + 1 \in 1 .. m /\ k = i - 1 + (k - i + 1)
      BY <1>5, <1>6, <2>1, <2>3
    <3>2. QED
      BY <3>1
  <2>4. CASE k > i - 1 + m
    <3>1. k - d \in j + 1 .. n /\ k = (k - d) + d
      BY <1>5, <1>6, <2>1, <2>4
    <3>2. QED
      BY <3>1
  <2>5. QED
    BY <1>5, <1>6, <2>1, <2>2, <2>3, <2>4
<1>4. QED
  BY <1>1, <1>2, <1>3

\* Each block of C has an extent of B or of M.
LEMMA SpliceEnds ==
  ASSUME NEW B, NEW C, NEW i, NEW j, NEW M, NEW n, NEW m, NEW d,
         Spliced(B, C, i, j, M, n, m, d),
         NEW E, NEW e, e = NextOf(B, E, j), M[1].b = B[i].b
  PROVE  /\ \A k \in 1 .. i - 1 : Ext(C, E, k) = Ext(B, E, k)
         /\ \A k \in 1 .. m : Ext(C, E, i - 1 + k) = Ext(M, e, k)
         /\ \A k \in j + 1 .. n : Ext(C, E, k + d) = Ext(B, E, k)
<1>5. n = Len(B) /\ m = Len(M) /\ Len(C) = n + d
  BY DEF Spliced
<1>9. n \in Int /\ m \in Int /\ i \in Int /\ j \in Int /\ d \in Int
  BY DEF Spliced
<1>10. 1 <= m /\ 1 <= i /\ i <= j /\ j <= n /\ d = m - (j - i + 1)
  BY DEF Spliced
<1>6. \A k \in 1 .. i - 1 : C[k] = B[k]
  BY DEF Spliced
<1>7. \A k \in 1 .. m : C[i - 1 + k] = M[k]
  BY DEF Spliced
<1>8. \A k \in j + 1 .. n : C[k + d] = B[k]
  BY DEF Spliced
<1>1. ASSUME NEW k \in 1 .. i - 1
      PROVE  Ext(C, E, k) = Ext(B, E, k)
  <2>1. k # Len(B) /\ k # Len(C) /\ k \in Int
    BY <1>5, <1>9, <1>10
  <2>2. C[k + 1].b = B[k + 1].b
    <3>1. CASE k + 1 < i
      <4>1. k + 1 \in 1 .. i - 1
        BY <1>9, <1>10, <3>1
      <4>2. QED
        BY <1>6, <4>1
    <3>2. CASE k + 1 = i
      <4>1. 1 \in 1 .. m /\ i - 1 + 1 = i
        BY <1>9, <1>10
      <4>2. C[i - 1 + 1] = M[1]
        BY <1>7, <4>1
      <4>3. QED
        BY <3>2, <4>1, <4>2
    <3>3. k + 1 < i \/ k + 1 = i
      BY <1>9, <1>10
    <3>4. QED
      BY <3>1, <3>2, <3>3
  <2>3. C[k] = B[k]
    BY <1>6
  <2>4. QED
    BY <2>1, <2>2, <2>3 DEF Ext, NextOf
<1>2. ASSUME NEW k \in 1 .. m
      PROVE  Ext(C, E, i - 1 + k) = Ext(M, e, k)
  <2>1. PICK h \in Int : h = i - 1 + k
    BY <1>9
  <2>2. C[h] = M[k]
    BY <1>7, <2>1
  <2>3. NextOf(C, E, h) = NextOf(M, e, k)
    <3>1. CASE k < m
      <4>1. k + 1 \in 1 .. m /\ h + 1 = i - 1 + (k + 1) /\ h # Len(C) /\ k # Len(M)
        BY <1>5, <1>9, <1>10, <2>1, <3>1
      <4>2. C[h + 1] = M[k + 1]
        BY <1>7, <4>1
      <4>3. QED
        BY <4>1, <4>2 DEF NextOf
    <3>2. CASE k = m /\ j = n
      <4>1. h = Len(C) /\ k = Len(M) /\ j = Len(B)
        BY <1>5, <1>9, <1>10, <2>1, <3>2
      <4>2. QED
        BY <4>1 DEF NextOf
    <3>3. CASE k = m /\ j < n
      <4>1. h # Len(C) /\ j + 1 \in j + 1 .. n /\ h + 1 = (j + 1) + d /\ k = Len(M) /\ j # Len(B)
        BY <1>5, <1>9, <1>10, <2>1, <3>3
      <4>2. C[h + 1] = B[j + 1]
        BY <1>8, <4>1
      <4>3. QED
        BY <4>1, <4>2 DEF NextOf
    <3>4. k < m \/ (k = m /\ j = n) \/ (k = m /\ j < n)
      BY <1>9, <1>10
    <3>5. QED
      BY <3>1, <3>2, <3>3, <3>4
  <2>4. QED
    BY <2>1, <2>2, <2>3 DEF Ext
<1>3. ASSUME NEW k \in j + 1 .. n
      PROVE  Ext(C, E, k + d) = Ext(B, E, k)
  <2>1. PICK h \in Int : h = k + d
    BY <1>9
  <2>2. C[h] = B[k]
    BY <1>8, <2>1
  <2>3. NextOf(C, E, h) = NextOf(B, E, k)
    <3>1. CASE k = n
      <4>1. h = Len(C) /\ k = Len(B)
        BY <1>5, <1>9, <1>10, <2>1, <3>1
      <4>2. QED
        BY <4>1 DEF NextOf
    <3>2. CASE k < n
      <4>1. k + 1 \in j + 1 .. n /\ h + 1 = (k + 1) + d /\ h # Len(C) /\ k # Len(B)
        BY <1>5, <1>9, <1>10, <2>1, <3>2
      <4>2. C[h + 1] = B[k + 1]
        BY <1>8, <4>1
      <4>3. QED
        BY <4>1, <4>2 DEF NextOf
    <3>3. k = n \/ k < n
      BY <1>9, <1>10
    <3>4. QED
      BY <3>1, <3>2, <3>3
  <2>4. QED
    BY <2>1, <2>2, <2>3 DEF Ext
<1>4. QED
  BY <1>1, <1>2, <1>3

LEMMA SpliceAscends ==
  ASSUME NEW B, NEW C, NEW i, NEW j, NEW M, NEW n, NEW m, NEW d,
         Spliced(B, C, i, j, M, n, m, d),
         NEW E, NEW e, e = NextOf(B, E, j), M[1].b = B[i].b, Ascends(B, E), Ascends(M, e)
  PROVE  Ascends(C, E) /\ C[1].b = B[1].b
<1>1. /\ DOMAIN B = 1 .. n /\ DOMAIN M = 1 .. m /\ DOMAIN C = 1 .. n + d
      /\ \A k \in DOMAIN C : \/ k \in 1 .. i - 1
                             \/ \E h \in 1 .. m : k = i - 1 + h
                             \/ \E h \in j + 1 .. n : k = h + d
  BY SplicePlaces
<1>2. /\ n \in Nat /\ m \in Nat \ {0} /\ i \in 1 .. n /\ j \in i .. n /\ d \in Int
      /\ n = Len(B) /\ B \in Seq(Block) /\ M \in Seq(Block) /\ C \in Seq(Block)
      /\ E \in Nat /\ e \in Nat /\ d = m - (j - i + 1)
  BY DEF Spliced, Ascends
<1>3. /\ \A k \in 1 .. n : B[k].b \in Nat /\ B[k].b < E
      /\ \A k \in 1 .. m : M[k].b \in Nat /\ M[k].b < e
      /\ \A k, l \in 1 .. n : k < l => B[k].b < B[l].b
      /\ \A k, l \in 1 .. m : k < l => M[k].b < M[l].b
  <2>1. (\A k \in 1 .. n : B[k] \in Block) /\ (\A k \in 1 .. m : M[k] \in Block)
    BY <1>1, <1>2, ElementOfSeq
  <2>2. (\A k \in 1 .. n : B[k].b \in Nat) /\ (\A k \in 1 .. m : M[k].b \in Nat)
    BY <2>1 DEF Block
  <2>3. QED
    BY <1>1, <2>2 DEF Ascends
<1>4. e = IF j = n THEN E ELSE B[j + 1].b
  BY <1>2 DEF NextOf
<1>5. /\ \A k \in 1 .. i - 1 : C[k] = B[k]
      /\ \A k \in 1 .. m : C[i - 1 + k] = M[k]
      /\ \A k \in j + 1 .. n : C[k + d] = B[k]
  BY DEF Spliced
<1>6. \A k \in 1 .. m : B[i].b <= M[k].b
  <2>1. SUFFICES ASSUME NEW k \in 1 .. m
                 PROVE  M[1].b <= M[k].b
    OBVIOUS
  <2>2. CASE k = 1
    BY <1>2, <1>3, <2>2
  <2>3. CASE k # 1
    <3>1. 1 \in 1 .. m /\ 1 < k
      BY <1>2, <2>3
    <3>2. M[1].b < M[k].b /\ M[1].b \in Nat /\ M[k].b \in Nat
      BY <1>3, <3>1
    <3>3. QED
      BY <3>2
  <2>4. QED
    BY <2>2, <2>3
<1>7. \A k \in j + 1 .. n : e <= B[k].b
  <2>1. SUFFICES ASSUME NEW k \in j + 1 .. n
                 PROVE  B[j + 1].b <= B[k].b /\ j # n
    BY <1>4
  <2>2. k \in 1 .. n /\ j + 1 \in 1 .. n /\ j # n
    BY <1>2
  <2>3. CASE k = j + 1
    BY <1>3, <2>2, <2>3
  <2>4. CASE k # j + 1
    <3>1. j + 1 < k
      BY <1>2, <2>4
    <3>2. B[j + 1].b < B[k].b /\ B[j + 1].b \in Nat /\ B[k].b \in Nat
      BY <1>3, <2>2, <3>1
    <3>3. QED
      BY <2>2, <3>2
  <2>5. QED
    BY <2>3, <2>4
<1>8. e <= E
  <2>1. CASE j = n
    BY <1>2, <1>4, <2>1
  <2>2. CASE j # n
    <3>1. j + 1 \in 1 .. n
      BY <1>2, <2>2
    <3>2. B[j + 1].b < E /\ B[j + 1].b \in Nat
      BY <1>3, <3>1
    <3>3. QED
      BY <1>2, <1>4, <2>2, <3>2
  <2>3. QED
    BY <2>1, <2>2
<1>9. ASSUME NEW k \in 1 .. i - 1
      PROVE  C[k].b \in Nat /\ C[k].b < E /\ C[k].b < B[i].b
  <2>1. k \in 1 .. n /\ i \in 1 .. n /\ k < i
    BY <1>2
  <2>2. QED
    BY <1>3, <1>5, <2>1
<1>10. ASSUME NEW h \in 1 .. m
       PROVE  /\ C[i - 1 + h].b = M[h].b /\ C[i - 1 + h].b \in Nat /\ C[i - 1 + h].b < e
              /\ C[i - 1 + h].b < E /\ B[i].b <= C[i - 1 + h].b
  <2>1. M[h].b \in Nat /\ M[h].b < e /\ B[i].b <= M[h].b
    BY <1>3, <1>6
  <2>2. QED
    BY <1>2, <1>5, <1>8, <2>1, SMTT(60)
<1>11. ASSUME NEW h \in j + 1 .. n
       PROVE  /\ C[h + d].b = B[h].b /\ C[h + d].b \in Nat /\ e <= C[h + d].b /\ C[h + d].b < E
              /\ h \in 1 .. n
  <2>1. h \in 1 .. n
    BY <1>2
  <2>2. QED
    BY <1>3, <1>5, <1>7, <2>1
<1>12. B[i].b \in Nat /\ B[i].b < e
  <2>1. 1 \in 1 .. m
    BY <1>2
  <2>2. QED
    BY <1>3, <2>1
<1>13. ASSUME NEW k \in DOMAIN C
       PROVE  C[k].b < E /\ C[k].b \in Nat
  BY <1>1, <1>9, <1>10, <1>11
<1>14. ASSUME NEW k \in DOMAIN C, NEW l \in DOMAIN C, k < l
       PROVE  C[k].b < C[l].b
  <2>0. k \in Int /\ l \in Int /\ k < l /\ C[k].b \in Nat /\ C[l].b \in Nat
    BY <1>1, <1>13, <1>14
  <2>1. CASE k \in 1 .. i - 1
    <3>1. CASE l \in 1 .. i - 1
      <4>1. k \in 1 .. n /\ l \in 1 .. n
        BY <1>2, <2>1, <3>1
      <4>2. C[k] = B[k] /\ C[l] = B[l]
        BY <1>5, <2>1, <3>1
      <4>3. B[k].b < B[l].b
        BY <1>3, <1>14, <4>1
      <4>4. QED
        BY <4>2, <4>3
    <3>2. CASE l \notin 1 .. i - 1
      <4>1. B[i].b <= C[l].b
        <5>1. CASE \E h \in 1 .. m : l = i - 1 + h
          BY <1>10, <5>1
        <5>2. CASE \E h \in j + 1 .. n : l = h + d
          <6>1. e <= C[l].b
            BY <1>11, <5>2
          <6>2. QED
            BY <1>2, <1>12, <2>0, <6>1, SMTT(60)
        <5>3. QED
          BY <1>1, <3>2, <5>1, <5>2
      <4>2. C[k].b < B[i].b
        BY <1>9, <2>1
      <4>3. QED
        BY <1>12, <2>0, <4>1, <4>2
    <3>3. QED
      BY <3>1, <3>2
  <2>2. CASE \E h \in 1 .. m : k = i - 1 + h
    <3>1. PICK h \in 1 .. m : k = i - 1 + h
      BY <2>2
    <3>2. C[k].b = M[h].b /\ C[k].b < e
      BY <1>10, <3>1
    <3>3. CASE \E g \in 1 .. m : l = i - 1 + g
      <4>1. PICK g \in 1 .. m : l = i - 1 + g
        BY <3>3
      <4>2. h < g
        BY <1>2, <1>14, <3>1, <4>1
      <4>3. C[l].b = M[g].b
        BY <1>10, <4>1
      <4>4. QED
        BY <1>3, <3>2, <4>2, <4>3
    <3>4. CASE \E g \in j + 1 .. n : l = g + d
      <4>1. e <= C[l].b
        BY <1>11, <3>4
      <4>2. QED
        BY <1>2, <2>0, <3>2, <4>1, SMTT(60)
    <3>5. l \notin 1 .. i - 1
      BY <1>2, <2>0, <3>1
    <3>6. QED
      BY <1>1, <3>3, <3>4, <3>5
  <2>3. CASE \E h \in j + 1 .. n : k = h + d
    <3>1. PICK h \in j + 1 .. n : k = h + d
      BY <2>3
    <3>2. l \notin 1 .. i - 1
      BY <1>2, <2>0, <3>1, SMTT(60)
    <3>3. \A g \in 1 .. m : l # i - 1 + g
      BY <1>2, <2>0, <3>1
    <3>4. PICK g \in j + 1 .. n : l = g + d
      BY <1>1, <3>2, <3>3
    <3>5. h < g
      BY <1>2, <1>14, <3>1, <3>4
    <3>6. C[k].b = B[h].b /\ C[l].b = B[g].b /\ h \in 1 .. n /\ g \in 1 .. n
      BY <1>11, <3>1, <3>4
    <3>7. QED
      BY <1>3, <3>5, <3>6
  <2>4. QED
    BY <1>1, <2>1, <2>2, <2>3
<1>15. C # <<>> /\ C[1].b = B[1].b
  <2>1. 1 \in DOMAIN C
    BY <1>1, <1>2
  <2>2. C # <<>>
    BY <2>1
  <2>3. CASE i > 1
    <3>1. 1 \in 1 .. i - 1
      BY <1>2, <2>3
    <3>2. QED
      BY <1>5, <2>2, <3>1
  <2>4. CASE i = 1
    <3>1. 1 \in 1 .. m /\ i - 1 + 1 = 1
      BY <1>2, <2>4
    <3>2. C[i - 1 + 1] = M[1]
      BY <1>5, <3>1
    <3>3. QED
      BY <2>2, <2>4, <3>1, <3>2
  <2>5. QED
    BY <1>2, <2>3, <2>4
<1>16. QED
  BY <1>2, <1>13, <1>14, <1>15 DEF Ascends

\* Extents do not overlap: an extent ends at or before a later one begins.
Apart(X, E) ==
  /\ \A x \in X : /\ x.b \in Nat /\ x.e \in Nat /\ x.b < x.e /\ x.e <= E /\ x.hole \in BOOLEAN
  /\ \A x, y \in X : x.b = y.b => x = y
  /\ \A x, y \in X : x.b < y.b => x.e <= y.b

LEMMA ExtentFacts ==
  ASSUME NEW B, NEW E, Ascends(B, E)
  PROVE  /\ Apart(Extents(B, E), E) /\ Len(B) \in Nat \ {0} /\ DOMAIN B = 1 .. Len(B)
         /\ \A k \in DOMAIN B : /\ B[k].b \in Nat /\ B[k].hole \in BOOLEAN
                                /\ NextOf(B, E, k) \in Nat /\ B[k].b < NextOf(B, E, k)
                                /\ NextOf(B, E, k) <= E
         /\ \A k, l \in DOMAIN B : B[k].b = B[l].b => k = l
<1>1. PICK n \in Nat : n = Len(B) /\ DOMAIN B = 1 .. n /\ n # 0
  <2>1. B \in Seq(Block) /\ B # <<>>
    BY DEF Ascends
  <2>2. QED
    BY <2>1, LenProperties, EmptySeq
<1>2. /\ \A k \in 1 .. n : B[k].b \in Nat /\ B[k].hole \in BOOLEAN /\ B[k].b < E
      /\ \A k, l \in 1 .. n : k < l => B[k].b < B[l].b
      /\ E \in Nat
  <2>1. B \in Seq(Block)
    BY DEF Ascends
  <2>2. \A k \in 1 .. n : B[k] \in Block
    BY <1>1, <2>1, ElementOfSeq
  <2>3. \A k \in 1 .. n : B[k].b \in Nat /\ B[k].hole \in BOOLEAN
    BY <2>2 DEF Block
  <2>4. QED
    BY <1>1, <2>3 DEF Ascends
<1>3. ASSUME NEW k \in 1 .. n
      PROVE  NextOf(B, E, k) \in Nat /\ B[k].b < NextOf(B, E, k) /\ NextOf(B, E, k) <= E
  <2>1. CASE k = n
    BY <1>1, <1>2, <2>1 DEF NextOf
  <2>2. CASE k # n
    <3>1. k + 1 \in 1 .. n /\ k < k + 1
      BY <1>1, <2>2
    <3>2. QED
      BY <1>1, <1>2, <2>2, <3>1 DEF NextOf
  <2>3. QED
    BY <2>1, <2>2
<1>4. ASSUME NEW k \in 1 .. n, NEW l \in 1 .. n, B[k].b < B[l].b
      PROVE  NextOf(B, E, k) <= B[l].b
  <2>1. k < l
    <3>1. SUFFICES ASSUME ~ (k < l)
                   PROVE  FALSE
      OBVIOUS
    <3>2. l = k \/ l < k
      BY <1>1, <3>1
    <3>3. QED
      BY <1>2, <1>4, <3>2
  <2>2. k + 1 \in 1 .. n /\ k # n
    BY <1>1, <2>1
  <2>3. CASE l = k + 1
    BY <1>1, <1>2, <2>2, <2>3 DEF NextOf
  <2>4. CASE l # k + 1
    <3>1. k + 1 < l
      BY <1>1, <2>1, <2>4
    <3>2. B[k + 1].b < B[l].b /\ B[k + 1].b \in Nat /\ B[l].b \in Nat
      BY <1>2, <2>2, <3>1
    <3>3. QED
      BY <1>1, <2>2, <3>2 DEF NextOf
  <2>5. QED
    BY <2>3, <2>4
<1>5. ASSUME NEW k \in 1 .. n, NEW l \in 1 .. n, B[k].b = B[l].b
      PROVE  k = l
  <2>1. SUFFICES ASSUME k # l
                 PROVE  FALSE
    OBVIOUS
  <2>2. k < l \/ l < k
    BY <1>1, <2>1
  <2>3. QED
    BY <1>2, <1>5, <2>2
<1>6. ASSUME NEW x \in Extents(B, E)
      PROVE  \E k \in 1 .. n : /\ x = Ext(B, E, k) /\ x.b = B[k].b /\ x.hole = B[k].hole
                               /\ x.e = NextOf(B, E, k)
  BY <1>1 DEF Extents, Ext
<1>7. \A x \in Extents(B, E) : /\ x.b \in Nat /\ x.e \in Nat /\ x.b < x.e /\ x.e <= E /\ x.hole \in BOOLEAN
  BY <1>2, <1>3, <1>6
<1>8. \A x, y \in Extents(B, E) : x.b = y.b => x = y
  BY <1>5, <1>6
<1>9. \A x, y \in Extents(B, E) : x.b < y.b => x.e <= y.b
  BY <1>4, <1>6
<1>10. Apart(Extents(B, E), E)
  BY <1>7, <1>8, <1>9 DEF Apart
<1>11. QED
  BY <1>1, <1>2, <1>3, <1>5, <1>10

LEMMA SpliceExtents ==
  ASSUME NEW B, NEW C, NEW i, NEW j, NEW M, NEW n, NEW m, NEW d,
         Spliced(B, C, i, j, M, n, m, d),
         NEW E, NEW e, e = NextOf(B, E, j), M[1].b = B[i].b, Ascends(B, E), Ascends(M, e)
  PROVE  Extents(C, E) = (Extents(B, E) \ {Ext(B, E, k) : k \in i .. j}) \cup Extents(M, e)
<1>1. /\ DOMAIN B = 1 .. n /\ DOMAIN M = 1 .. m
      /\ \A k \in DOMAIN C : \/ k \in 1 .. i - 1
                             \/ \E h \in 1 .. m : k = i - 1 + h
                             \/ \E h \in j + 1 .. n : k = h + d
      /\ \A k \in 1 .. i - 1 : k \in DOMAIN C
      /\ \A k \in 1 .. m : i - 1 + k \in DOMAIN C
      /\ \A k \in j + 1 .. n : k + d \in DOMAIN C
  BY SplicePlaces
<1>2. /\ \A k \in 1 .. i - 1 : Ext(C, E, k) = Ext(B, E, k)
      /\ \A k \in 1 .. m : Ext(C, E, i - 1 + k) = Ext(M, e, k)
      /\ \A k \in j + 1 .. n : Ext(C, E, k + d) = Ext(B, E, k)
  BY SpliceEnds
<1>3. n \in Nat /\ i \in 1 .. n /\ j \in i .. n
  BY DEF Spliced
<1>4. \A k, l \in 1 .. n : Ext(B, E, k) = Ext(B, E, l) => k = l
  <2>1. \A k, l \in 1 .. n : B[k].b = B[l].b => k = l
    BY <1>1, ExtentFacts
  <2>2. \A k : Ext(B, E, k).b = B[k].b
    BY DEF Ext
  <2>3. QED
    BY <2>1, <2>2
<1>5. ASSUME NEW k \in 1 .. n, k < i \/ j < k
      PROVE  Ext(B, E, k) \notin {Ext(B, E, l) : l \in i .. j}
  <2>1. \A l \in i .. j : l \in 1 .. n /\ l # k
    BY <1>3, <1>5
  <2>2. QED
    BY <1>4, <2>1
<1>6. ASSUME NEW x \in Extents(C, E)
      PROVE  x \in (Extents(B, E) \ {Ext(B, E, k) : k \in i .. j}) \cup Extents(M, e)
  <2>1. PICK k \in DOMAIN C : x = Ext(C, E, k)
    BY DEF Extents
  <2>2. CASE k \in 1 .. i - 1
    <3>1. k \in 1 .. n /\ k < i /\ x = Ext(B, E, k)
      BY <1>2, <1>3, <2>1, <2>2
    <3>2. QED
      BY <1>1, <1>5, <3>1 DEF Extents
  <2>3. CASE \E h \in 1 .. m : k = i - 1 + h
    BY <1>1, <1>2, <2>1, <2>3 DEF Extents
  <2>4. CASE \E h \in j + 1 .. n : k = h + d
    <3>1. PICK h \in j + 1 .. n : k = h + d
      BY <2>4
    <3>2. h \in 1 .. n /\ j < h /\ x = Ext(B, E, h)
      BY <1>2, <1>3, <2>1, <3>1
    <3>3. QED
      BY <1>1, <1>5, <3>2 DEF Extents
  <2>5. QED
    BY <1>1, <2>2, <2>3, <2>4
<1>7. ASSUME NEW x \in Extents(B, E), x \notin {Ext(B, E, k) : k \in i .. j}
      PROVE  x \in Extents(C, E)
  <2>1. PICK k \in 1 .. n : x = Ext(B, E, k)
    BY <1>1 DEF Extents
  <2>2. k \notin i .. j
    BY <1>7, <2>1
  <2>3. CASE k \in 1 .. i - 1
    BY <1>1, <1>2, <2>1, <2>3 DEF Extents
  <2>4. CASE k \in j + 1 .. n
    BY <1>1, <1>2, <2>1, <2>4 DEF Extents
  <2>5. k \in 1 .. i - 1 \/ k \in j + 1 .. n
    BY <1>3, <2>2
  <2>6. QED
    BY <2>3, <2>4, <2>5
<1>8. ASSUME NEW x \in Extents(M, e)
      PROVE  x \in Extents(C, E)
  BY <1>1, <1>2 DEF Extents
<1>9. QED
  BY <1>6, <1>7, <1>8
-----------------------------------------------------------------------------
(* What the operations do to the list                                      *)

\* B is a list of n blocks.
Blocks(B, n) == B \in Seq(Block) /\ Len(B) = n /\ n \in Nat

LEMMA TypeOfBlocks ==
  ASSUME NEW B, NEW n, Blocks(B, n)
  PROVE  DOMAIN B = 1 .. n /\ n \in Nat /\ Len(B) = n /\ \A k \in 1 .. n : B[k] \in Block
BY LenProperties, ElementOfSeq DEF Blocks

LEMMA NotEmpty ==
  ASSUME NEW B, NEW n, Blocks(B, n), n # 0
  PROVE  B # <<>>
BY EmptySeq DEF Blocks

\* u is s, of p blocks, and then t, of q.
Joined(u, s, p, t, q) ==
  Blocks(u, p + q) /\ (\A k \in 1 .. p : u[k] = s[k]) /\ (\A k \in 1 .. q : u[p + k] = t[k])

LEMMA ConcatBlocks ==
  ASSUME NEW s, NEW t, NEW p, NEW q, Blocks(s, p), Blocks(t, q), NEW v, v = s \o t
  PROVE  Joined(v, s, p, t, q)
<1>1. PICK u : u = s \o t
  OBVIOUS
<1>2. s \in Seq(Block) /\ t \in Seq(Block) /\ p = Len(s) /\ q = Len(t) /\ p \in Nat /\ q \in Nat
  BY DEF Blocks
<1>3. /\ u \in Seq(Block) /\ Len(u) = Len(s) + Len(t)
      /\ \A k \in 1 .. Len(s) + Len(t) : u[k] = IF k <= Len(s) THEN s[k] ELSE t[k - Len(s)]
  BY <1>1, <1>2, ConcatProperties
<1>4. \A k \in 1 .. p : u[k] = s[k]
  BY <1>2, <1>3
<1>5. ASSUME NEW k \in 1 .. q
      PROVE  u[p + k] = t[k]
  <2>1. p + k \in 1 .. p + q /\ ~ (p + k <= p) /\ (p + k) - p = k
    BY <1>2
  <2>2. QED
    BY <1>2, <1>3, <2>1
<1>6. Blocks(u, p + q)
  BY <1>2, <1>3 DEF Blocks
<1>7. QED
  BY <1>1, <1>4, <1>5, <1>6 DEF Joined

LEMMA CutBlocks ==
  ASSUME NEW B, NEW n, Blocks(B, n), NEW lo \in Nat \ {0}, NEW hi \in Int, NEW w \in Nat,
         w = hi - lo + 1, hi <= n
  PROVE  /\ Blocks(SubSeq(B, lo, hi), w)
         /\ \A k \in 1 .. w : SubSeq(B, lo, hi)[k] = B[lo - 1 + k]
<1>1. \A k \in lo .. hi : B[k] \in Block
  BY TypeOfBlocks
<1>2. PICK u : u = SubSeq(B, lo, hi)
  OBVIOUS
<1>3. /\ u \in Seq(Block) /\ Len(u) = (IF lo <= hi THEN hi - lo + 1 ELSE 0)
      /\ \A k \in 1 .. hi - lo + 1 : u[k] = B[lo + k - 1]
  BY <1>1, <1>2, SubSeqProperties
<1>4. hi - lo + 1 = w /\ (~ (lo <= hi) => w = 0) /\ \A k \in 1 .. w : lo + k - 1 = lo - 1 + k
  OBVIOUS
<1>5. Blocks(u, w) /\ \A k \in 1 .. w : u[k] = B[lo - 1 + k]
  BY <1>3, <1>4 DEF Blocks
<1>6. QED
  BY <1>2, <1>5

\* L are the p blocks in front of the one at i, R the q behind it.
Around(B, i, L, p, R, q) ==
  /\ Blocks(L, p) /\ \A k \in 1 .. p : L[k] = B[k]
  /\ Blocks(R, q) /\ \A k \in 1 .. q : R[k] = B[i + k]

LEMMA CutAround ==
  ASSUME NEW B, NEW n, Blocks(B, n), NEW i \in 1 .. n, NEW p, NEW q, p = i - 1, q = n - i,
         NEW L, L = SubSeq(B, 1, p), NEW R, R = SubSeq(B, i + 1, n)
  PROVE  Around(B, i, L, p, R, q)
<1>1. n \in Nat
  BY DEF Blocks
<1>2. p \in Nat /\ q \in Nat /\ p = p - 1 + 1 /\ p <= n /\ 1 \in Nat \ {0} /\ p \in Int
  BY <1>1
<1>3. Blocks(SubSeq(B, 1, p), p) /\ \A k \in 1 .. p : SubSeq(B, 1, p)[k] = B[1 - 1 + k]
  <2>1. \A lo \in Nat \ {0}, hi \in Int, w \in Nat : w = hi - lo + 1 /\ hi <= n =>
          Blocks(SubSeq(B, lo, hi), w) /\ \A k \in 1 .. w : SubSeq(B, lo, hi)[k] = B[lo - 1 + k]
    BY CutBlocks
  <2>2. QED
    BY <1>2, <2>1, Zenon
<1>4. PICK g \in Nat \ {0} : g = i + 1 /\ q = n - g + 1 /\ g - 1 = i
  BY <1>1
<1>5. n \in Int /\ n <= n
  BY <1>1
<1>6. Blocks(SubSeq(B, g, n), q) /\ \A k \in 1 .. q : SubSeq(B, g, n)[k] = B[g - 1 + k]
  <2>1. \A lo \in Nat \ {0}, w \in Nat : w = n - lo + 1 =>
          Blocks(SubSeq(B, lo, n), w) /\ \A k \in 1 .. w : SubSeq(B, lo, n)[k] = B[lo - 1 + k]
    BY <1>5, CutBlocks
  <2>2. QED
    BY <1>2, <1>4, <2>1
<1>7. \A k \in 1 .. p : 1 - 1 + k = k
  BY <1>2
<1>8. QED
  BY <1>3, <1>4, <1>6, <1>7 DEF Around

\* What carving does: the block at i gives way to others.
LEMMA ConcatSpliced ==
  ASSUME NEW B, NEW n, Blocks(B, n), NEW M, NEW m, Blocks(M, m), m # 0, NEW i \in 1 .. n
  PROVE  Spliced(B, SubSeq(B, 1, i - 1) \o M \o SubSeq(B, i + 1, n), i, i, M, n, m, m - 1)
<1>1. n \in Nat /\ m \in Nat
  BY DEF Blocks
<1>2. PICK p \in Nat : p = i - 1
  BY <1>1
<1>3. PICK q \in Nat : q = n - i
  BY <1>1
<1>4. PICK L : L = SubSeq(B, 1, p)
  OBVIOUS
<1>5. PICK R : R = SubSeq(B, i + 1, n)
  OBVIOUS
<1>6. /\ Blocks(L, p) /\ \A k \in 1 .. p : L[k] = B[k]
      /\ Blocks(R, q) /\ \A k \in 1 .. q : R[k] = B[i + k]
  <2>1. Around(B, i, L, p, R, q)
    BY <1>2, <1>3, <1>4, <1>5, CutAround
  <2>2. QED
    BY <2>1 DEF Around
<1>7. PICK F : F = L \o M
  OBVIOUS
<1>8. PICK r \in Nat : r = p + m
  BY <1>1
<1>9. /\ Blocks(F, r) /\ (\A k \in 1 .. p : F[k] = L[k]) /\ (\A k \in 1 .. m : F[p + k] = M[k])
  <2>1. Joined(F, L, p, M, m)
    BY <1>6, <1>7, ConcatBlocks
  <2>2. QED
    BY <1>8, <2>1 DEF Joined
<1>10. PICK C : C = F \o R
  OBVIOUS
<1>11. /\ Blocks(C, r + q) /\ (\A k \in 1 .. r : C[k] = F[k]) /\ (\A k \in 1 .. q : C[r + k] = R[k])
  <2>1. Joined(C, F, r, R, q)
    BY <1>6, <1>9, <1>10, ConcatBlocks
  <2>2. QED
    BY <2>1 DEF Joined
<1>12. \A k \in 1 .. i - 1 : C[k] = B[k]
  <2>1. \A k \in 1 .. i - 1 : k \in 1 .. p /\ k \in 1 .. r
    BY <1>1, <1>2, <1>8
  <2>2. QED
    BY <1>6, <1>9, <1>11, <2>1
<1>13. \A k \in 1 .. m : C[i - 1 + k] = M[k]
  <2>1. \A k \in 1 .. m : p + k \in 1 .. r /\ i - 1 + k = p + k
    BY <1>1, <1>2, <1>8
  <2>2. QED
    BY <1>9, <1>11, <2>1
<1>14. ASSUME NEW k \in i + 1 .. n
       PROVE  C[k + (m - 1)] = B[k]
  <2>1. PICK g \in Int : g = k - i
    BY <1>1
  <2>2. g \in 1 .. q /\ i + g = k /\ k + (m - 1) = r + g
    BY <1>1, <1>2, <1>3, <1>8, <2>1
  <2>3. C[r + g] = R[g] /\ R[g] = B[i + g]
    BY <1>6, <1>11, <2>2
  <2>4. QED
    BY <2>2, <2>3
<1>15. /\ r + q = n + (m - 1) /\ m - 1 = m - (i - i + 1) /\ i \in i .. n /\ m \in Nat \ {0} /\ m - 1 \in Int
  BY <1>1, <1>2, <1>3, <1>8
<1>16. B \in Seq(Block) /\ C \in Seq(Block) /\ M \in Seq(Block) /\ n = Len(B) /\ m = Len(M) /\ Len(C) = r + q
  BY <1>11 DEF Blocks
<1>17. Spliced(B, C, i, i, M, n, m, m - 1)
  BY <1>1, <1>12, <1>13, <1>14, <1>15, <1>16 DEF Spliced
<1>18. QED
  BY <1>2, <1>4, <1>5, <1>7, <1>10, <1>17

\* The block in front of the run may be counted to it.
LEMMA SpliceWider ==
  ASSUME NEW B, NEW C, NEW i, NEW M, NEW n, NEW m, NEW d, Spliced(B, C, i, i, M, n, m, d), i > 1,
         NEW W, Blocks(W, m + 1), W[1] = B[i - 1], \A k \in 1 .. m : W[k + 1] = M[k]
  PROVE  Spliced(B, C, i - 1, i, W, n, m + 1, d)
<1>1. /\ B \in Seq(Block) /\ C \in Seq(Block) /\ n = Len(B) /\ n \in Nat /\ m \in Nat \ {0} /\ i \in 1 .. n
      /\ d \in Int /\ d = m - 1 /\ Len(C) = n + d
  BY DEF Spliced
<1>2. /\ \A k \in 1 .. i - 1 : C[k] = B[k]
      /\ \A k \in 1 .. m : C[i - 1 + k] = M[k]
      /\ \A k \in i + 1 .. n : C[k + d] = B[k]
  BY DEF Spliced
<1>3. ASSUME NEW k \in 1 .. m + 1
      PROVE  C[(i - 1) - 1 + k] = W[k]
  <2>1. CASE k = 1
    <3>1. (i - 1) - 1 + k = i - 1 /\ i - 1 \in 1 .. i - 1
      BY <1>1, <2>1
    <3>2. C[i - 1] = B[i - 1]
      BY <1>2, <3>1
    <3>3. QED
      BY <2>1, <3>1, <3>2
  <2>2. CASE k # 1
    <3>1. PICK h \in Int : h = k - 1
      BY <1>1
    <3>2. h \in 1 .. m /\ (i - 1) - 1 + k = i - 1 + h /\ k = h + 1
      BY <1>1, <2>2, <3>1
    <3>3. C[i - 1 + h] = M[h] /\ W[h + 1] = M[h]
      BY <1>2, <3>2
    <3>4. QED
      BY <3>2, <3>3
  <2>3. QED
    BY <2>1, <2>2
<1>4. \A k \in 1 .. (i - 1) - 1 : C[k] = B[k]
  BY <1>1, <1>2
<1>5. /\ i - 1 \in 1 .. n /\ i \in i - 1 .. n /\ d = (m + 1) - (i - (i - 1) + 1) /\ m + 1 \in Nat \ {0}
  BY <1>1
<1>6. W \in Seq(Block) /\ m + 1 = Len(W)
  BY DEF Blocks
<1>7. QED
  BY <1>1, <1>2, <1>3, <1>4, <1>5, <1>6 DEF Spliced

\* Unlinking the block at i: the one in front of it reaches farther.
LEMMA UnlinkSpliced ==
  ASSUME NEW B, NEW n, Blocks(B, n), NEW i \in 1 .. n, i > 1, NEW M, Blocks(M, 1), M[1] = B[i - 1]
  PROVE  Spliced(B, SubSeq(B, 1, i - 1) \o SubSeq(B, i + 1, n), i - 1, i, M, n, 1, -1)
<1>1. n \in Nat
  BY DEF Blocks
<1>2. PICK p \in Nat : p = i - 1
  BY <1>1
<1>3. PICK q \in Nat : q = n - i
  BY <1>1
<1>4. PICK L : L = SubSeq(B, 1, p)
  OBVIOUS
<1>5. PICK R : R = SubSeq(B, i + 1, n)
  OBVIOUS
<1>6. /\ Blocks(L, p) /\ \A k \in 1 .. p : L[k] = B[k]
      /\ Blocks(R, q) /\ \A k \in 1 .. q : R[k] = B[i + k]
  <2>1. Around(B, i, L, p, R, q)
    BY <1>2, <1>3, <1>4, <1>5, CutAround
  <2>2. QED
    BY <2>1 DEF Around
<1>7. PICK C : C = L \o R
  OBVIOUS
<1>8. /\ Blocks(C, p + q) /\ (\A k \in 1 .. p : C[k] = L[k]) /\ (\A k \in 1 .. q : C[p + k] = R[k])
  <2>1. Joined(C, L, p, R, q)
    BY <1>6, <1>7, ConcatBlocks
  <2>2. QED
    BY <2>1 DEF Joined
<1>9. \A k \in 1 .. p : C[k] = B[k]
  BY <1>6, <1>8
<1>10. ASSUME NEW k \in i + 1 .. n
       PROVE  C[k + (-1)] = B[k]
  <2>1. PICK g \in Int : g = k - i
    BY <1>1
  <2>2. g \in 1 .. q /\ i + g = k /\ k + (-1) = p + g
    BY <1>1, <1>2, <1>3, <2>1
  <2>3. C[p + g] = R[g] /\ R[g] = B[i + g]
    BY <1>6, <1>8, <2>2
  <2>4. QED
    BY <2>2, <2>3
<1>11. ASSUME NEW k \in 1 .. 1
       PROVE  C[(i - 1) - 1 + k] = M[k]
  <2>1. k = 1 /\ (i - 1) - 1 + k = p /\ p = i - 1 /\ p \in 1 .. p
    BY <1>1, <1>2
  <2>2. C[p] = B[p]
    BY <1>9, <2>1
  <2>3. QED
    BY <2>1, <2>2
<1>12. \A k \in 1 .. (i - 1) - 1 : C[k] = B[k]
  BY <1>1, <1>2, <1>9
<1>13. /\ p + q = n + (-1) /\ -1 = 1 - (i - (i - 1) + 1) /\ i \in i - 1 .. n /\ i - 1 \in 1 .. n
  BY <1>1, <1>2, <1>3
<1>14. B \in Seq(Block) /\ C \in Seq(Block) /\ M \in Seq(Block) /\ n = Len(B) /\ 1 = Len(M) /\ Len(C) = p + q
  BY <1>8 DEF Blocks
<1>15. Spliced(B, C, i - 1, i, M, n, 1, -1)
  BY <1>1, <1>10, <1>11, <1>12, <1>13, <1>14 DEF Spliced
<1>16. QED
  BY <1>2, <1>4, <1>5, <1>7, <1>15

\* Marking the block at i as a hole.
LEMMA MarkSpliced ==
  ASSUME NEW B, NEW n, Blocks(B, n), NEW i \in 1 .. n, NEW M, Blocks(M, 1), M[1] = [b |-> B[i].b, hole |-> TRUE]
  PROVE  Spliced(B, [B EXCEPT ![i].hole = TRUE], i, i, M, n, 1, 0)
<1>1. n \in Nat /\ n = Len(B) /\ DOMAIN B = 1 .. n /\ (\A k \in 1 .. n : B[k] \in Block)
  BY TypeOfBlocks
<1>2. PICK C : C = [B EXCEPT ![i].hole = TRUE]
  OBVIOUS
<1>3. PICK x : x = B[i] /\ x \in Block
  BY <1>1
<1>4. PICK y : y = [x EXCEPT !.hole = TRUE]
  OBVIOUS
<1>5. y = [b |-> B[i].b, hole |-> TRUE] /\ y \in Block
  BY <1>3, <1>4 DEF Block
<1>6. C = [B EXCEPT ![i] = y]
  BY <1>1, <1>2, <1>3, <1>4
<1>7. C \in Seq(Block) /\ Len(C) = n /\ C[i] = M[1] /\ \A k \in 1 .. n : k # i => C[k] = B[k]
  <2>1. C \in Seq(Block) /\ Len(C) = n
    <3>1. B \in Seq(Block) /\ i \in 1 .. Len(B)
      BY <1>1 DEF Blocks
    <3>2. QED
      BY <1>1, <1>5, <1>6, <3>1, ExceptSeq
  <2>2. C[i] = y /\ \A k \in 1 .. n : k # i => C[k] = B[k]
    BY <1>1, <1>6
  <2>3. QED
    BY <1>5, <2>1, <2>2
<1>8. ASSUME NEW k \in 1 .. 1
      PROVE  C[i - 1 + k] = M[k]
  <2>1. k = 1 /\ i - 1 + k = i
    BY <1>1
  <2>2. QED
    BY <1>7, <2>1
<1>9. (\A k \in 1 .. i - 1 : C[k] = B[k]) /\ (\A k \in i + 1 .. n : k + 0 = k /\ C[k] = B[k])
  BY <1>1, <1>7
<1>10. B \in Seq(Block) /\ M \in Seq(Block) /\ 1 = Len(M)
  BY DEF Blocks
<1>11. n = n + 0 /\ 0 = 1 - (i - i + 1) /\ i \in i .. n
  BY <1>1
<1>12. Spliced(B, C, i, i, M, n, 1, 0)
  BY <1>1, <1>7, <1>8, <1>9, <1>10, <1>11 DEF Spliced
<1>13. QED
  BY <1>2, <1>12
-----------------------------------------------------------------------------
(* What that does to the extents                                           *)

Piece(b, e, hole) == [b |-> b, e |-> e, hole |-> hole]
HoleAt(x, b, e) == x = Piece(b, e, TRUE)
HunkAt(x, b, e) == x = Piece(b, e, FALSE)

LEMMA PieceFields ==
  ASSUME NEW x, NEW b, NEW e
  PROVE  /\ HoleAt(x, b, e) => x.b = b /\ x.e = e /\ x.hole
         /\ HunkAt(x, b, e) => x.b = b /\ x.e = e /\ ~ x.hole
BY DEF Piece, HoleAt, HunkAt

\* The extents of the few blocks that replace a run.
LEMMA OneBlock ==
  ASSUME NEW M, Blocks(M, 1), NEW e \in Nat, M[1].b < e
  PROVE  Ascends(M, e) /\ Extents(M, e) = {Piece(M[1].b, e, M[1].hole)}
<1>1. M \in Seq(Block) /\ Len(M) = 1 /\ DOMAIN M = 1 .. 1
  BY TypeOfBlocks DEF Blocks
<1>2. DOMAIN M = {1}
  BY <1>1
<1>3. M # <<>>
  BY NotEmpty
<1>4. Ascends(M, e)
  BY <1>1, <1>2, <1>3 DEF Ascends
<1>5. Ext(M, e, 1) = Piece(M[1].b, e, M[1].hole)
  BY <1>1 DEF Ext, NextOf, Piece
<1>6. QED
  BY <1>2, <1>4, <1>5 DEF Extents

LEMMA TwoBlocks ==
  ASSUME NEW M, Blocks(M, 2), NEW e \in Nat, M[1].b < M[2].b, M[2].b < e
  PROVE  /\ Ascends(M, e)
         /\ Extents(M, e) = {Piece(M[1].b, M[2].b, M[1].hole), Piece(M[2].b, e, M[2].hole)}
<1>1. M \in Seq(Block) /\ Len(M) = 2 /\ DOMAIN M = 1 .. 2 /\ \A k \in 1 .. 2 : M[k] \in Block
  BY TypeOfBlocks DEF Blocks
<1>2. DOMAIN M = {1, 2}
  BY <1>1
<1>3. M # <<>>
  BY NotEmpty
<1>4. M[1].b \in Nat /\ M[2].b \in Nat
  BY <1>1 DEF Block
<1>5. \A k \in {1, 2} : M[k].b < e
  BY <1>4
<1>6. \A k, l \in {1, 2} : k < l => M[k].b < M[l].b
  BY <1>4
<1>7. Ascends(M, e)
  BY <1>1, <1>2, <1>3, <1>5, <1>6 DEF Ascends
<1>8. Ext(M, e, 1) = Piece(M[1].b, M[2].b, M[1].hole) /\ Ext(M, e, 2) = Piece(M[2].b, e, M[2].hole)
  BY <1>1 DEF Ext, NextOf, Piece
<1>9. QED
  BY <1>2, <1>7, <1>8 DEF Extents

LEMMA ThreeBlocks ==
  ASSUME NEW M, Blocks(M, 3), NEW e \in Nat, M[1].b < M[2].b, M[2].b < M[3].b, M[3].b < e
  PROVE  /\ Ascends(M, e)
         /\ Extents(M, e) = {Piece(M[1].b, M[2].b, M[1].hole), Piece(M[2].b, M[3].b, M[2].hole),
                             Piece(M[3].b, e, M[3].hole)}
<1>1. M \in Seq(Block) /\ Len(M) = 3 /\ DOMAIN M = 1 .. 3 /\ \A k \in 1 .. 3 : M[k] \in Block
  BY TypeOfBlocks DEF Blocks
<1>2. DOMAIN M = {1, 2, 3}
  BY <1>1
<1>3. M # <<>>
  BY NotEmpty
<1>4. M[1].b \in Nat /\ M[2].b \in Nat /\ M[3].b \in Nat
  BY <1>1 DEF Block
<1>5. \A k \in {1, 2, 3} : M[k].b < e
  BY <1>4
<1>6. \A k, l \in {1, 2, 3} : k < l => M[k].b < M[l].b
  BY <1>4
<1>7. Ascends(M, e)
  BY <1>1, <1>2, <1>3, <1>5, <1>6 DEF Ascends
<1>8. /\ Ext(M, e, 1) = Piece(M[1].b, M[2].b, M[1].hole) /\ Ext(M, e, 2) = Piece(M[2].b, M[3].b, M[2].hole)
      /\ Ext(M, e, 3) = Piece(M[3].b, e, M[3].hole)
  BY <1>1 DEF Ext, NextOf, Piece
<1>9. QED
  BY <1>2, <1>7, <1>8 DEF Extents

\* The indexes follow when the extents R give way to N.
Follow(X, Y, R, N) ==
  /\ HolesOf(Y) = (HolesOf(X) \ HolesOf(R)) \cup HolesOf(N)
  /\ HunksOf(Y) = (HunksOf(X) \ HunksOf(R)) \cup HunksOf(N)

LEMMA IndexesFollow ==
  ASSUME NEW X, NEW E, Apart(X, E), NEW R, R \subseteq X, NEW N, NEW Y, Y = (X \ R) \cup N
  PROVE  Follow(X, Y, R, N)
<1>1. \A x, y \in X : x.b = y.b => x = y
  BY DEF Apart
<1>2. ASSUME NEW x \in X, NEW y \in R, <<x.e - x.b, x.b>> = <<y.e - y.b, y.b>>
      PROVE  x = y
  BY <1>1, <1>2
<1>3. HolesOf(Y) = (HolesOf(X) \ HolesOf(R)) \cup HolesOf(N)
  BY <1>2 DEF HolesOf
<1>4. HunksOf(Y) = (HunksOf(X) \ HunksOf(R)) \cup HunksOf(N)
  BY <1>1 DEF HunksOf
<1>5. QED
  BY <1>3, <1>4 DEF Follow

LEMMA IndexOfPieces ==
  /\ HolesOf({}) = {} /\ HunksOf({}) = {}
  /\ \A b, e : HolesOf({Piece(b, e, TRUE)}) = {<<e - b, b>>} /\ HunksOf({Piece(b, e, TRUE)}) = {}
  /\ \A b, e : HolesOf({Piece(b, e, FALSE)}) = {} /\ HunksOf({Piece(b, e, FALSE)}) = {b}
  /\ \A P, Q : HolesOf(P \cup Q) = HolesOf(P) \cup HolesOf(Q) /\ HunksOf(P \cup Q) = HunksOf(P) \cup HunksOf(Q)
<1>1. HolesOf({}) = {} /\ HunksOf({}) = {}
  BY DEF HolesOf, HunksOf
<1>2. ASSUME NEW b, NEW e
      PROVE  HolesOf({Piece(b, e, TRUE)}) = {<<e - b, b>>} /\ HunksOf({Piece(b, e, TRUE)}) = {}
  <2>1. PICK p : p = Piece(b, e, TRUE)
    OBVIOUS
  <2>2. p.b = b /\ p.e = e
    BY <2>1 DEF Piece
  <2>3. p.hole = TRUE
    BY <2>1 DEF Piece
  <2>4. HolesOf({p}) = {<<p.e - p.b, p.b>>}
    BY <2>3 DEF HolesOf
  <2>5. HunksOf({p}) = {}
    BY <2>3 DEF HunksOf
  <2>6. QED
    BY <2>1, <2>2, <2>4, <2>5
<1>3. ASSUME NEW b, NEW e
      PROVE  HolesOf({Piece(b, e, FALSE)}) = {} /\ HunksOf({Piece(b, e, FALSE)}) = {b}
  <2>1. PICK p : p = Piece(b, e, FALSE)
    OBVIOUS
  <2>2. p.b = b /\ p.e = e
    BY <2>1 DEF Piece
  <2>3. p.hole = FALSE
    BY <2>1 DEF Piece
  <2>4. HolesOf({p}) = {}
    BY <2>3 DEF HolesOf
  <2>5. HunksOf({p}) = {p.b}
    BY <2>3 DEF HunksOf
  <2>6. QED
    BY <2>1, <2>2, <2>4, <2>5
<1>4. ASSUME NEW P, NEW Q
      PROVE  HolesOf(P \cup Q) = HolesOf(P) \cup HolesOf(Q)
  BY DEF HolesOf
<1>5. ASSUME NEW P, NEW Q
      PROVE  HunksOf(P \cup Q) = HunksOf(P) \cup HunksOf(Q)
  BY DEF HunksOf
<1>6. QED
  BY <1>1, <1>2, <1>3, <1>4, <1>5

LEMMA IndexOfPair ==
  ASSUME NEW p, NEW q
  PROVE  HolesOf({p, q}) = HolesOf({p}) \cup HolesOf({q}) /\ HunksOf({p, q}) = HunksOf({p}) \cup HunksOf({q})
<1>1. HolesOf({p, q}) = HolesOf({p}) \cup HolesOf({q})
  BY DEF HolesOf
<1>2. HunksOf({p, q}) = HunksOf({p}) \cup HunksOf({q})
  BY DEF HunksOf
<1>3. QED
  BY <1>1, <1>2

\* From X to Y the hole from hb to he was cut: the hunk from mb to me came out of it, what
\* remains of the hole is at either end, and hunks did not shrink.
Carved(X, Y, hb, mb, me, he) ==
  /\ Piece(hb, he, TRUE) \in X /\ Piece(mb, me, FALSE) \in Y
  /\ hb \in Nat /\ mb \in Nat /\ me \in Nat /\ he \in Nat /\ hb <= mb /\ mb < me /\ me <= he
  /\ \A z \in Y : z.hole => \/ z \in X /\ z # Piece(hb, he, TRUE)
                            \/ z.b = hb /\ z.e = mb
                            \/ z.b = me /\ z.e = he
  /\ \A z \in Y : ~ z.hole => z.b = mb \/ \E w \in X : ~ w.hole /\ w.b = z.b
  /\ \A w \in X : ~ w.hole => \E z \in Y : ~ z.hole /\ z.b = w.b /\ w.e <= z.e

LEMMA CarveKeepsHolesApart ==
  ASSUME NEW X, NEW Y, NEW hb, NEW mb, NEW me, NEW he, Carved(X, Y, hb, mb, me, he),
         NEW E, Apart(X, E), Apart(Y, E), HolesApart(X)
  PROVE  HolesApart(Y)
<1>1. PICK x : x = Piece(hb, he, TRUE)
  OBVIOUS
<1>2. PICK u : u = Piece(mb, me, FALSE)
  OBVIOUS
<1>3. x \in X /\ x.b = hb /\ x.e = he /\ u \in Y /\ u.b = mb /\ u.e = me
  BY <1>1, <1>2 DEF Carved, Piece
<1>4. x.hole /\ ~ u.hole
  BY <1>1, <1>2 DEF Piece
<1>5. hb \in Nat /\ mb \in Nat /\ me \in Nat /\ he \in Nat /\ hb <= mb /\ mb < me /\ me <= he
  BY DEF Carved
<1>6. \A z \in Y : z.hole => (z \in X /\ z # x) \/ (z.b = hb /\ z.e = mb) \/ (z.b = me /\ z.e = he)
  BY <1>1 DEF Carved
<1>7. \A v, w \in X : v.hole /\ w.hole => v.e # w.b
  BY DEF HolesApart
<1>8. /\ \A z \in Y : z.b \in Nat /\ z.e \in Nat /\ z.b < z.e
      /\ \A v, w \in Y : (v.b = w.b => v = w) /\ (v.b < w.b => v.e <= w.b)
  BY DEF Apart
<1>9. SUFFICES ASSUME NEW v \in Y, NEW w \in Y, v.hole, w.hole, v.e = w.b
               PROVE  FALSE
  BY DEF HolesApart
<1>10. v.b \in Nat /\ v.e \in Nat /\ v.b < v.e /\ w.b \in Nat /\ w.e \in Nat /\ w.b < w.e
  BY <1>8
<1>11. w.b # mb
  <2>1. SUFFICES ASSUME w.b = mb
                 PROVE  FALSE
    OBVIOUS
  <2>2. w = u
    BY <1>3, <1>8, <2>1
  <2>3. QED
    BY <1>4, <1>9, <2>2
<1>12. v.e # me
  <2>1. SUFFICES ASSUME v.e = me
                 PROVE  FALSE
    OBVIOUS
  <2>2. v # u
    BY <1>4, <1>9
  <2>3. (v.b = u.b => v = u) /\ (v.b < u.b => v.e <= u.b) /\ (u.b < v.b => u.e <= v.b)
    BY <1>3, <1>8
  <2>4. QED
    BY <1>3, <1>5, <1>10, <2>1, <2>2, <2>3
<1>13. (v \in X /\ v # x) \/ (v.b = hb /\ v.e = mb) \/ (v.b = me /\ v.e = he)
  BY <1>6, <1>9
<1>14. (w \in X /\ w # x) \/ (w.b = hb /\ w.e = mb) \/ (w.b = me /\ w.e = he)
  BY <1>6, <1>9
<1>15. v.e # mb
  BY <1>9, <1>11
<1>16. w.b # me
  BY <1>9, <1>12
<1>17. CASE v \in X /\ w \in X
  BY <1>7, <1>9, <1>17
<1>18. CASE v \in X /\ w.b = hb
  BY <1>3, <1>4, <1>7, <1>9, <1>18
<1>19. CASE v.b = me /\ v.e = he /\ w \in X
  BY <1>3, <1>4, <1>7, <1>9, <1>19
<1>20. CASE v.b = me /\ v.e = he /\ w.b = hb
  <2>1. he = hb
    BY <1>9, <1>20
  <2>2. QED
    BY <1>5, <2>1
<1>21. QED
  BY <1>13, <1>14, <1>15, <1>16, <1>17, <1>18, <1>19, <1>20

LEMMA CarveKeepsHeld ==
  ASSUME NEW X, NEW Y, NEW hb, NEW mb, NEW me, NEW he, Carved(X, Y, hb, mb, me, he),
         NEW E, Apart(X, E), Apart(Y, E), NEW H, NEW base, HeldIn(X, H, base),
         NEW a \in Held, a.b = mb, a.b + a.size = me, (base + a.b) % a.align = 0
  PROVE  HeldIn(Y, H \cup {a}, base)
<1>1. PICK x : x = Piece(hb, he, TRUE)
  OBVIOUS
<1>2. PICK u : u = Piece(mb, me, FALSE)
  OBVIOUS
<1>3. x \in X /\ x.b = hb /\ x.e = he /\ u \in Y /\ u.b = mb /\ u.e = me
  BY <1>1, <1>2 DEF Carved, Piece
<1>4. x.hole /\ ~ u.hole
  BY <1>1, <1>2 DEF Piece
<1>5. hb \in Nat /\ mb \in Nat /\ me \in Nat /\ he \in Nat /\ hb <= mb /\ mb < me /\ me <= he
  BY DEF Carved
<1>6. /\ \A z \in Y : ~ z.hole => z.b = mb \/ \E w \in X : ~ w.hole /\ w.b = z.b
      /\ \A w \in X : ~ w.hole => \E z \in Y : ~ z.hole /\ z.b = w.b /\ w.e <= z.e
  BY DEF Carved
<1>7. /\ \A c \in H : \E w \in X : ~ w.hole /\ w.b = c.b /\ c.b + c.size <= w.e
      /\ \A w \in X : ~ w.hole => \E c \in H : w.b = c.b
      /\ \A c, d \in H : c.b = d.b => c = d
      /\ \A c \in H : (base + c.b) % c.align = 0
  BY DEF HeldIn
<1>8. H \subseteq Held /\ IsFiniteSet(H)
  BY DEF HeldIn
<1>9. H \cup {a} \subseteq Held /\ IsFiniteSet(H \cup {a})
  BY <1>8, FS_AddElement
<1>10. ASSUME NEW c \in H \cup {a}
       PROVE  \E z \in Y : ~ z.hole /\ z.b = c.b /\ c.b + c.size <= z.e
  <2>1. CASE c = a
    BY <1>3, <1>4, <1>5, <2>1
  <2>2. CASE c \in H
    <3>1. PICK w \in X : ~ w.hole /\ w.b = c.b /\ c.b + c.size <= w.e
      BY <1>7, <2>2
    <3>2. PICK z \in Y : ~ z.hole /\ z.b = w.b /\ w.e <= z.e
      BY <1>6, <3>1
    <3>3. w.e \in Nat /\ z.e \in Nat
      BY DEF Apart
    <3>4. c.b \in Nat /\ c.size \in Nat
      BY <1>8, <2>2 DEF Held
    <3>5. c.b + c.size <= z.e
      BY <3>1, <3>2, <3>3, <3>4
    <3>6. QED
      BY <3>1, <3>2, <3>5
  <2>3. QED
    BY <2>1, <2>2
<1>11. \A z \in Y : ~ z.hole => \E c \in H \cup {a} : z.b = c.b
  BY <1>6, <1>7
<1>12. ASSUME NEW c \in H
       PROVE  c.b # mb
  <2>1. PICK w \in X : ~ w.hole /\ w.b = c.b
    BY <1>7
  <2>2. w # x /\ w.b \in Nat
    BY <1>4, <2>1 DEF Apart
  <2>3. (w.b = x.b => w = x) /\ (x.b < w.b => x.e <= w.b)
    BY <1>3 DEF Apart
  <2>4. QED
    BY <1>3, <1>5, <2>1, <2>2, <2>3
<1>13. \A c, d \in H \cup {a} : c.b = d.b => c = d
  BY <1>7, <1>12
<1>14. \A c \in H \cup {a} : (base + c.b) % c.align = 0
  BY <1>7
<1>15. QED
  BY <1>9, <1>10, <1>11, <1>13, <1>14 DEF HeldIn

\* From X to Y the hunk at b was given back, within the hole t: no hole ends where t
\* begins, but one may begin where it ends.
HolesApartBut(X, t) == \A x, y \in X : x.hole /\ y.hole /\ x.e = y.b => x = t

LEMMA FreeKeepsHeld ==
  ASSUME NEW X, NEW Y, NEW H, NEW base, HeldIn(X, H, base), NEW a \in H,
         \A z \in Y : ~ z.hole => z \in X /\ z.b # a.b,
         \A z \in X : ~ z.hole /\ z.b # a.b => z \in Y
  PROVE  HeldIn(Y, H \ {a}, base)
<1>1. /\ \A c \in H : \E w \in X : ~ w.hole /\ w.b = c.b /\ c.b + c.size <= w.e
      /\ \A w \in X : ~ w.hole => \E c \in H : w.b = c.b
      /\ \A c, d \in H : c.b = d.b => c = d
      /\ \A c \in H : (base + c.b) % c.align = 0
  BY DEF HeldIn
<1>2. H \ {a} \subseteq Held /\ IsFiniteSet(H \ {a})
  <2>1. H \subseteq Held /\ IsFiniteSet(H)
    BY DEF HeldIn
  <2>2. QED
    BY <2>1, FS_RemoveElement
<1>3. ASSUME NEW c \in H \ {a}
      PROVE  \E z \in Y : ~ z.hole /\ z.b = c.b /\ c.b + c.size <= z.e
  <2>1. c.b # a.b
    BY <1>1
  <2>2. PICK w \in X : ~ w.hole /\ w.b = c.b /\ c.b + c.size <= w.e
    BY <1>1
  <2>3. QED
    BY <2>1, <2>2
<1>4. \A z \in Y : ~ z.hole => \E c \in H \ {a} : z.b = c.b
  <2>1. SUFFICES ASSUME NEW z \in Y, ~ z.hole
                 PROVE  \E c \in H \ {a} : z.b = c.b
    OBVIOUS
  <2>2. z \in X /\ z.b # a.b
    BY <2>1
  <2>3. PICK c \in H : z.b = c.b
    BY <1>1, <2>1, <2>2
  <2>4. c # a
    BY <2>2, <2>3
  <2>5. QED
    BY <2>3, <2>4
<1>5. QED
  BY <1>1, <1>2, <1>3, <1>4 DEF HeldIn

\* The hunk becomes a hole of its own, when no hole ends where it begins.
NoHoleEndsAt(X, b) == \A z \in X : z.hole => z.e # b

AloneFrom(X, Y, E, b, e, x, t, H, base, a) ==
  /\ Apart(X, E) /\ HolesApart(X) /\ NoHoleEndsAt(X, b)
  /\ x = Piece(b, e, FALSE) /\ x \in X /\ t = Piece(b, e, TRUE) /\ Y = (X \ {x}) \cup {t}
  /\ HeldIn(X, H, base) /\ a \in H /\ a.b = b

LEMMA FreeAlone ==
  ASSUME NEW X, NEW Y, NEW E, NEW b, NEW e, NEW x, NEW t, NEW H, NEW base, NEW a,
         AloneFrom(X, Y, E, b, e, x, t, H, base, a)
  PROVE  HolesApartBut(Y, t) /\ HeldIn(Y, H \ {a}, base)
<1>1. x.b = b /\ x.e = e /\ t.b = b /\ t.e = e
  BY DEF AloneFrom, Piece
<1>2. ~ x.hole /\ t.hole
  BY DEF AloneFrom, Piece
<1>3. \A v, w \in X : v.b = w.b => v = w
  BY DEF AloneFrom, Apart
<1>4. x \in X /\ Y = (X \ {x}) \cup {t} /\ HeldIn(X, H, base) /\ a \in H /\ a.b = b
  BY DEF AloneFrom
<1>5. HolesApartBut(Y, t)
  <2>1. ASSUME NEW v \in Y, NEW w \in Y, v.hole, w.hole, v.e = w.b
        PROVE  v = t
    <3>1. SUFFICES ASSUME v # t
                   PROVE  FALSE
      OBVIOUS
    <3>2. v \in X
      BY <1>4, <3>1
    <3>3. CASE w \in X
      BY <2>1, <3>2, <3>3 DEF AloneFrom, HolesApart
    <3>4. CASE w = t
      BY <1>1, <2>1, <3>2, <3>4 DEF AloneFrom, NoHoleEndsAt
    <3>5. QED
      BY <1>4, <3>3, <3>4
  <2>2. QED
    BY <2>1 DEF HolesApartBut
<1>6. \A z \in Y : ~ z.hole => z \in X /\ z.b # a.b
  <2>1. SUFFICES ASSUME NEW z \in Y, ~ z.hole
                 PROVE  z \in X /\ z.b # a.b
    OBVIOUS
  <2>2. z \in X /\ z # x
    BY <1>2, <1>4, <2>1
  <2>3. QED
    BY <1>1, <1>3, <1>4, <2>2
<1>7. \A z \in X : ~ z.hole /\ z.b # a.b => z \in Y
  BY <1>1, <1>4
<1>8. HeldIn(Y, H \ {a}, base)
  BY <1>4, <1>6, <1>7, FreeKeepsHeld
<1>9. QED
  BY <1>5, <1>8

\* The hunk and the hole y on its left become one.
LeftFrom(X, Y, E, l, b, e, x, y, t, H, base, a) ==
  /\ Apart(X, E) /\ HolesApart(X)
  /\ x = Piece(b, e, FALSE) /\ x \in X /\ y = Piece(l, b, TRUE) /\ y \in X
  /\ t = Piece(l, e, TRUE) /\ Y = (X \ {y, x}) \cup {t}
  /\ HeldIn(X, H, base) /\ a \in H /\ a.b = b

LEMMA FreeToLeft ==
  ASSUME NEW X, NEW Y, NEW E, NEW l, NEW b, NEW e, NEW x, NEW y, NEW t, NEW H, NEW base, NEW a,
         LeftFrom(X, Y, E, l, b, e, x, y, t, H, base, a)
  PROVE  HolesApartBut(Y, t) /\ HeldIn(Y, H \ {a}, base)
<1> USE DEF LeftFrom
<1>1. x.b = b /\ x.e = e /\ t.b = l /\ t.e = e /\ y.b = l /\ y.e = b
  BY DEF Piece
<1>2. ~ x.hole /\ t.hole /\ y.hole
  BY DEF Piece
<1>3. \A v, w \in X : v.b = w.b => v = w
  BY DEF Apart
<1>4. HolesApartBut(Y, t)
  <2>1. SUFFICES ASSUME NEW v \in Y, NEW w \in Y, v.hole, w.hole, v.e = w.b, v # t
                 PROVE  FALSE
    BY ZenonT(60) DEF HolesApartBut
  <2>2. v \in X
    BY <2>1
  <2>3. w \in X \/ w = t
    BY <2>1
  <2>4. CASE w \in X
    BY <2>1, <2>2, <2>4 DEF HolesApart
  <2>5. CASE w = t
    <3>1. v.e = y.b
      BY <1>1, <2>1, <2>5
    <3>2. QED
      BY <1>2, <2>1, <2>2, <3>1 DEF HolesApart
  <2>6. QED
    BY <2>3, <2>4, <2>5
<1>5. \A z \in Y : ~ z.hole => z \in X /\ z.b # a.b
  <2>1. SUFFICES ASSUME NEW z \in Y, ~ z.hole
                 PROVE  z \in X /\ z.b # a.b
    OBVIOUS
  <2>2. z \in X /\ z # x
    BY <1>2, <2>1
  <2>3. QED
    BY <1>1, <1>3, <2>2
<1>6. \A z \in X : ~ z.hole /\ z.b # a.b => z \in Y
  BY <1>1, <1>2
<1>7. HeldIn(Y, H \ {a}, base)
  BY <1>5, <1>6, FreeKeepsHeld
<1>8. QED
  BY <1>4, <1>7

\* The hole t and the hole z on its right become one.
RightFrom(X, Y, E, b, m, e, t, z, n, H, base) ==
  /\ Apart(X, E) /\ HolesApartBut(X, t) /\ HeldIn(X, H, base)
  /\ t = Piece(b, m, TRUE) /\ t \in X /\ z = Piece(m, e, TRUE) /\ z \in X
  /\ n = Piece(b, e, TRUE) /\ Y = (X \ {t, z}) \cup {n}

LEMMA FuseToRight ==
  ASSUME NEW X, NEW Y, NEW E, NEW b, NEW m, NEW e, NEW t, NEW z, NEW n, NEW H, NEW base,
         RightFrom(X, Y, E, b, m, e, t, z, n, H, base)
  PROVE  HolesApart(Y) /\ HeldIn(Y, H, base)
<1> USE DEF RightFrom
<1>1. t.b = b /\ t.e = m /\ z.b = m /\ z.e = e /\ n.b = b /\ n.e = e
  BY DEF Piece
<1>2. t.hole /\ z.hole /\ n.hole
  BY DEF Piece
<1>3. b \in Nat /\ m \in Nat /\ e \in Nat /\ b < m /\ m < e
  BY <1>1 DEF Apart
<1>4. t # z
  <2>1. SUFFICES ASSUME t = z
                 PROVE  FALSE
    OBVIOUS
  <2>2. b = m
    BY <1>1, <2>1
  <2>3. QED
    BY <1>3, <2>2
<1>5. HolesApart(Y)
  <2>1. SUFFICES ASSUME NEW v \in Y, NEW w \in Y, v.hole, w.hole, v.e = w.b
                 PROVE  FALSE
    BY ZenonT(60) DEF HolesApart
  <2>2. (v \in X /\ v # t /\ v # z) \/ v = n
    OBVIOUS
  <2>3. (w \in X /\ w # t /\ w # z) \/ w = n
    OBVIOUS
  <2>4. CASE v \in X /\ w \in X /\ v # t
    BY <2>1, <2>4 DEF HolesApartBut
  <2>5. CASE v \in X /\ w = n /\ v # t
    <3>1. v.e = t.b
      BY <1>1, <2>1, <2>5
    <3>2. QED
      BY <1>2, <2>1, <2>5, <3>1 DEF HolesApartBut
  <2>6. CASE v = n /\ w \in X
    <3>1. z.e = w.b
      BY <1>1, <2>1, <2>6
    <3>2. z = t
      BY <1>2, <2>1, <2>6, <3>1 DEF HolesApartBut
    <3>3. QED
      BY <1>4, <3>2
  <2>7. CASE v = n /\ w = n
    <3>1. e = b
      BY <1>1, <2>1, <2>7
    <3>2. QED
      BY <1>3, <3>1
  <2>8. QED
    BY <2>2, <2>3, <2>4, <2>5, <2>6, <2>7
<1>6. \A v : ~ v.hole => (v \in X <=> v \in Y)
  BY <1>2
<1>7. HeldIn(Y, H, base)
  BY <1>6 DEF HeldIn
<1>8. QED
  BY <1>5, <1>7

\* No hole begins where t ends.
LEMMA NothingToFuse ==
  ASSUME NEW X, NEW t, HolesApartBut(X, t), \A z \in X : z.hole => z.b # t.e
  PROVE  HolesApart(X)
BY DEF HolesApartBut, HolesApart

\* The blocks at either side of the one at i are the ones that touch it.
LEMMA Neighbours ==
  ASSUME NEW B, NEW E, Ascends(B, E), NEW i \in DOMAIN B
  PROVE  /\ i > 1 => i - 1 \in DOMAIN B /\ NextOf(B, E, i - 1) = B[i].b
         /\ \A z \in Extents(B, E) : z.e = B[i].b => i > 1 /\ z = Ext(B, E, i - 1)
         /\ \A z \in Extents(B, E) : z.b = NextOf(B, E, i) => i < Len(B) /\ z = Ext(B, E, i + 1)
<1>1. PICK n \in Nat : n = Len(B) /\ n # 0 /\ DOMAIN B = 1 .. n
  BY ExtentFacts
<1>2. Apart(Extents(B, E), E)
  BY ExtentFacts
<1>3. \A k \in 1 .. n : Ext(B, E, k) \in Extents(B, E) /\ Ext(B, E, k).b = B[k].b /\ Ext(B, E, k).e = NextOf(B, E, k)
  BY <1>1 DEF Extents, Ext
<1>4. /\ \A x \in Extents(B, E) : x.b \in Nat /\ x.e \in Nat /\ x.b < x.e /\ x.e <= E
      /\ \A x, y \in Extents(B, E) : (x.b = y.b => x = y) /\ (x.b < y.b => x.e <= y.b)
  BY <1>2 DEF Apart
<1>5. E \in Nat /\ \A k, l \in 1 .. n : k < l => B[k].b < B[l].b
  BY <1>1 DEF Ascends
<1>6. PICK x \in Extents(B, E) : x = Ext(B, E, i) /\ x.b = B[i].b /\ x.e = NextOf(B, E, i)
  BY <1>1, <1>3
<1>7. ASSUME i > 1
      PROVE  i - 1 \in 1 .. n /\ NextOf(B, E, i - 1) = B[i].b
  BY <1>1, <1>7 DEF NextOf
<1>8. ASSUME NEW z \in Extents(B, E), z.e = B[i].b
      PROVE  i > 1 /\ z = Ext(B, E, i - 1)
  <2>1. CASE i > 1
    <3>1. PICK y \in Extents(B, E) : y = Ext(B, E, i - 1) /\ y.e = B[i].b
      BY <1>3, <1>7, <2>1
    <3>2. z.b \in Nat /\ z.e \in Nat /\ z.b < z.e /\ y.b \in Nat /\ y.e \in Nat /\ y.b < y.e
      BY <1>4
    <3>3. (z.b < y.b => z.e <= y.b) /\ (y.b < z.b => y.e <= z.b) /\ (y.b = z.b => y = z)
      BY <1>4
    <3>4. z.b = y.b
      BY <1>8, <3>1, <3>2, <3>3
    <3>5. QED
      BY <2>1, <3>1, <3>3, <3>4
  <2>2. CASE ~ (i > 1)
    <3>1. i = 1
      BY <1>1, <2>2
    <3>2. PICK k \in 1 .. n : z = Ext(B, E, k) /\ z.b = B[k].b
      BY <1>1, <1>3 DEF Extents
    <3>3. z.b \in Nat /\ z.e \in Nat /\ z.b < z.e
      BY <1>4
    <3>4. B[k].b < B[1].b
      BY <1>8, <3>1, <3>2, <3>3
    <3>5. k = 1 \/ (1 < k /\ 1 \in 1 .. n)
      BY <1>1
    <3>6. x.b \in Nat /\ x.b = B[1].b
      BY <1>4, <1>6, <3>1
    <3>7. QED
      BY <1>5, <3>2, <3>3, <3>4, <3>5, <3>6
  <2>3. QED
    BY <2>1, <2>2
<1>9. ASSUME NEW z \in Extents(B, E), z.b = NextOf(B, E, i)
      PROVE  i < n /\ z = Ext(B, E, i + 1)
  <2>1. z.b \in Nat /\ z.e \in Nat /\ z.b < z.e /\ z.e <= E
    BY <1>4
  <2>2. i # n
    <3>1. SUFFICES ASSUME i = n
                   PROVE  FALSE
      OBVIOUS
    <3>2. z.b = E
      BY <1>1, <1>9, <3>1 DEF NextOf
    <3>3. QED
      BY <1>5, <2>1, <3>2
  <2>3. i < n /\ i + 1 \in 1 .. n
    BY <1>1, <2>2
  <2>4. z.b = B[i + 1].b
    BY <1>1, <1>9, <2>2 DEF NextOf
  <2>5. PICK y \in Extents(B, E) : y = Ext(B, E, i + 1) /\ y.b = B[i + 1].b
    BY <1>3, <2>3
  <2>6. QED
    BY <1>4, <2>3, <2>4, <2>5
<1>10. QED
  BY <1>1, <1>7, <1>8, <1>9

\* The run R of the extents X of B gives way to N, which leaves the extents Y of C.
Replaced(B, C, E, X, Y, R, N) ==
  /\ Ascends(C, E) /\ C[1].b = B[1].b /\ X = Extents(B, E) /\ Y = Extents(C, E)
  /\ Y = (X \ R) \cup N /\ R \subseteq X /\ Apart(X, E) /\ Apart(Y, E)
  /\ Follow(X, Y, R, N)

RunReplaced(B, C, i, j, M, n, m, d, E, e, X, Y, R, N) ==
  /\ Spliced(B, C, i, j, M, n, m, d) /\ e = NextOf(B, E, j) /\ M[1].b = B[i].b /\ Ascends(B, E) /\ Ascends(M, e)
  /\ X = Extents(B, E) /\ Y = Extents(C, E) /\ N = Extents(M, e)
  /\ \A x : x \in R <=> \E k \in i .. j : x = Ext(B, E, k)

LEMMA SpliceReplaces ==
  ASSUME NEW B, NEW C, NEW i, NEW j, NEW M, NEW n, NEW m, NEW d, NEW E, NEW e, NEW X, NEW Y, NEW R, NEW N,
         RunReplaced(B, C, i, j, M, n, m, d, E, e, X, Y, R, N)
  PROVE  Replaced(B, C, E, X, Y, R, N)
<1>1. Spliced(B, C, i, j, M, n, m, d) /\ e = NextOf(B, E, j) /\ M[1].b = B[i].b /\ Ascends(B, E) /\ Ascends(M, e)
  BY DEF RunReplaced
<1>2. X = Extents(B, E) /\ Y = Extents(C, E) /\ N = Extents(M, e)
  BY DEF RunReplaced
<1>3. R = {Ext(B, E, k) : k \in i .. j}
  BY DEF RunReplaced
<1>5. Ascends(C, E) /\ C[1].b = B[1].b
  BY <1>1, SpliceAscends
<1>6. Y = (X \ R) \cup N
  BY <1>1, <1>2, <1>3, SpliceExtents
<1>7. Apart(X, E) /\ Apart(Y, E)
  BY <1>1, <1>2, <1>5, ExtentFacts
<1>8. R \subseteq X
  <2>1. DOMAIN B = 1 .. n
    BY <1>1, SplicePlaces
  <2>2. i .. j \subseteq 1 .. n
    BY <1>1 DEF Spliced
  <2>3. QED
    BY <1>2, <1>3, <2>1, <2>2 DEF Extents
<1>9. Follow(X, Y, R, N)
  BY <1>6, <1>7, <1>8, IndexesFollow
<1>10. QED
  BY <1>2, <1>5, <1>6, <1>7, <1>8, <1>9 DEF Replaced
-----------------------------------------------------------------------------
(* Giving a hunk back                                                      *)

LEMMA SingleBlock ==
  ASSUME NEW x \in Block
  PROVE  \E M : Blocks(M, 1) /\ M[1] = x
<1>1. PICK M : M = [k \in 1 .. 1 |-> x]
  OBVIOUS
<1>2. M \in Seq(Block) /\ Len(M) = 1 /\ M[1] = x
  <2>1. 1 \in Nat /\ (\A k \in 1 .. 1 : M[k] \in Block) /\ M[1] = x
    BY <1>1
  <2>2. QED
    BY <1>1, <2>1, IsASeq, LenProperties
<1>3. QED
  BY <1>2 DEF Blocks

\* The list and its indexes, in step with each other and with what is held.
Half(B, E, ho, hu, H, base) ==
  /\ Ascends(B, E) /\ B[1].b = 0
  /\ ho = HolesOf(Extents(B, E)) /\ hu = HunksOf(Extents(B, E)) /\ HeldIn(Extents(B, E), H, base)

\* The hole at i is the only one that may border on another.
Fusible(B, E, ho, hu, H, base, i) ==
  /\ Half(B, E, ho, hu, H, base)
  /\ i \in DOMAIN B /\ B[i].hole = TRUE /\ HolesApartBut(Extents(B, E), Ext(B, E, i))

\* C is the list B after the block at i, a hunk, has become the hole at j or a part of it.
HoleMade(B, C, i, E, ho, hu, ho2, j, H, base) ==
  /\ Fusible(C, E, ho2, hu, H, base, j)
  /\ j = IF Len(C) < Len(B) THEN i - 1 ELSE i

LEMMA MarkFrees ==
  ASSUME NEW B, NEW E, NEW ho, NEW hu, NEW H, NEW base, Half(B, E, ho, hu, H, base), HolesApart(Extents(B, E)),
         NEW i \in DOMAIN B, B[i].hole = FALSE, NEW a \in H, a.b = B[i].b,
         ~ (i > 1 /\ B[i - 1].hole),
         NEW C, C = [B EXCEPT ![i].hole = TRUE],
         NEW ho2, ho2 = ho \cup {<<NextOf(B, E, i) - B[i].b, B[i].b>>}
  PROVE  HoleMade(B, C, i, E, ho, hu \ {a.b}, ho2, i, H \ {a}, base)
<1>1. Ascends(B, E) /\ B[1].b = 0 /\ ho = HolesOf(Extents(B, E)) /\ hu = HunksOf(Extents(B, E))
      /\ HeldIn(Extents(B, E), H, base)
  BY DEF Half
<1>2. PICK n \in Nat : n = Len(B) /\ n # 0 /\ DOMAIN B = 1 .. n /\ Blocks(B, n)
  BY <1>1, ExtentFacts DEF Ascends, Blocks
<1>3. PICK b \in Nat : b = B[i].b
  BY <1>1, ExtentFacts
<1>4. PICK e \in Nat : e = NextOf(B, E, i) /\ b < e
  BY <1>1, <1>3, ExtentFacts
<1>5. PICK M : Blocks(M, 1) /\ M[1] = [b |-> b, hole |-> TRUE]
  <2>1. [b |-> b, hole |-> TRUE] \in Block
    BY DEF Block
  <2>2. QED
    BY <2>1, SingleBlock
<1>6. M[1].b = b /\ M[1].hole = TRUE
  BY <1>5
<1>7. Spliced(B, C, i, i, M, n, 1, 0)
  BY <1>2, <1>3, <1>5, MarkSpliced
<1>8. Ascends(M, e) /\ Extents(M, e) = {Piece(b, e, TRUE)}
  BY <1>4, <1>5, <1>6, OneBlock
<1>9. PICK X : X = Extents(B, E)
  OBVIOUS
<1>10. PICK Y : Y = Extents(C, E)
  OBVIOUS
<1>11. PICK x : x = Piece(b, e, FALSE) /\ x = Ext(B, E, i)
  BY <1>3, <1>4 DEF Piece, Ext
<1>12. PICK t : t = Piece(b, e, TRUE)
  OBVIOUS
<1>13. \A y : y \in {x} <=> \E k \in i .. i : y = Ext(B, E, k)
  <2>1. i .. i = {i}
    BY <1>2
  <2>2. QED
    BY <1>11, <2>1
<1>14. Replaced(B, C, E, X, Y, {x}, {t})
  <2>1. M[1].b = B[i].b /\ Ascends(M, e) /\ {t} = Extents(M, e)
    BY <1>3, <1>6, <1>8, <1>12
  <2>2. QED
    <3>1. RunReplaced(B, C, i, i, M, n, 1, 0, E, e, X, Y, {x}, {t})
      BY <1>1, <1>4, <1>7, <1>9, <1>10, <1>13, <2>1 DEF RunReplaced
    <3>2. QED
      BY <3>1, SpliceReplaces
<1>15. /\ Ascends(C, E) /\ C[1].b = B[1].b /\ Y = (X \ {x}) \cup {t} /\ x \in X /\ Apart(X, E) /\ Apart(Y, E)
       /\ HolesOf(Y) = (HolesOf(X) \ HolesOf({x})) \cup HolesOf({t})
       /\ HunksOf(Y) = (HunksOf(X) \ HunksOf({x})) \cup HunksOf({t})
  BY <1>14 DEF Replaced, Follow
<1>16. HolesOf({x}) = {} /\ HolesOf({t}) = {<<e - b, b>>} /\ HunksOf({x}) = {b} /\ HunksOf({t}) = {}
  BY <1>11, <1>12, IndexOfPieces
<1>17. ho2 = HolesOf(Y) /\ hu \ {a.b} = HunksOf(Y)
  BY <1>1, <1>3, <1>4, <1>9, <1>15, <1>16
<1>18. NoHoleEndsAt(X, b)
  <2>1. SUFFICES ASSUME NEW z \in X, z.hole, z.e = b
                 PROVE  FALSE
    BY DEF NoHoleEndsAt
  <2>2. i > 1 /\ z = Ext(B, E, i - 1)
    BY <1>1, <1>3, <1>9, <2>1, Neighbours
  <2>3. B[i - 1].hole
    BY <2>1, <2>2 DEF Ext
  <2>4. QED
    BY <2>2, <2>3
<1>19. HolesApartBut(Y, t) /\ HeldIn(Y, H \ {a}, base)
  <2>1. HolesApart(X) /\ HeldIn(X, H, base) /\ a.b = b /\ x = Piece(b, e, FALSE)
    BY <1>1, <1>3, <1>9, <1>11
  <2>2. x \in X /\ Apart(X, E) /\ Y = (X \ {x}) \cup {t}
    BY <1>15
  <2>3. QED
    <3>1. AloneFrom(X, Y, E, b, e, x, t, H, base, a)
      BY <1>12, <1>18, <2>1, <2>2 DEF AloneFrom
    <3>2. QED
      BY <3>1, FreeAlone
<1>20. i - 1 + 1 = i /\ 1 \in 1 .. 1
  BY <1>2
<1>21. i \in DOMAIN C /\ C[i] = M[1] /\ Len(C) = n
  <2>1. /\ \A k \in 1 .. 1 : i - 1 + k \in DOMAIN C
    BY <1>7, SplicePlaces
  <2>2. (\A k \in 1 .. 1 : C[i - 1 + k] = M[k]) /\ Len(C) = n + 0
    BY <1>7 DEF Spliced
  <2>3. i - 1 + 1 \in DOMAIN C /\ C[i - 1 + 1] = M[1] /\ Len(C) = n
    BY <1>2, <1>20, <2>1, <2>2
  <2>4. QED
    BY <1>20, <2>3
<1>22. Ext(C, E, i) = t
  <2>1. \A k \in 1 .. 1 : Ext(C, E, i - 1 + k) = Ext(M, e, k)
    BY <1>3, <1>4, <1>6, <1>7, SpliceEnds
  <2>2. Ext(C, E, i) = Ext(M, e, 1)
    BY <1>20, <2>1
  <2>3. Ext(M, e, 1) = t
    BY <1>5, <1>6, <1>12 DEF Ext, NextOf, Piece, Blocks
  <2>4. QED
    BY <2>2, <2>3
<1>23. Half(C, E, ho2, hu \ {a.b}, H \ {a}, base)
  BY <1>1, <1>10, <1>15, <1>17, <1>19 DEF Half
<1>24. C[i].hole = TRUE
  BY <1>6, <1>21
<1>25. HolesApartBut(Extents(C, E), Ext(C, E, i))
  BY <1>10, <1>19, <1>22
<1>26. i = IF Len(C) < Len(B) THEN i - 1 ELSE i
  BY <1>2, <1>21
<1>27. QED
  BY <1>21, <1>23, <1>24, <1>25, <1>26 DEF HoleMade, Fusible

UnlinkLeft(B, C, E, ho, ho2, hu, H, base, i, h, a) ==
  /\ Half(B, E, ho, hu, H, base) /\ HolesApart(Extents(B, E))
  /\ i \in DOMAIN B /\ B[i].hole = FALSE /\ a \in H /\ a.b = B[i].b
  /\ h = i - 1 /\ i > 1 /\ B[h].hole = TRUE
  /\ C = SubSeq(B, 1, i - 1) \o SubSeq(B, i + 1, Len(B))
  /\ ho2 = (ho \ {<<B[i].b - B[h].b, B[h].b>>}) \cup {<<NextOf(B, E, i) - B[h].b, B[h].b>>}

LEMMA UnlinkFrees ==
  ASSUME NEW B, NEW C, NEW E, NEW ho, NEW ho2, NEW hu, NEW H, NEW base, NEW i, NEW h, NEW a,
         UnlinkLeft(B, C, E, ho, ho2, hu, H, base, i, h, a)
  PROVE  HoleMade(B, C, i, E, ho, hu \ {a.b}, ho2, h, H \ {a}, base)
<1>1. Ascends(B, E) /\ B[1].b = 0 /\ ho = HolesOf(Extents(B, E)) /\ hu = HunksOf(Extents(B, E))
      /\ HeldIn(Extents(B, E), H, base)
  BY DEF UnlinkLeft, Half
<1>2. PICK n \in Nat : n = Len(B) /\ n # 0 /\ DOMAIN B = 1 .. n /\ Blocks(B, n)
  BY <1>1, ExtentFacts DEF Ascends, Blocks
<1>3. i \in 1 .. n /\ h \in 1 .. n /\ h = i - 1 /\ i > 1
  BY <1>2 DEF UnlinkLeft
<1>4. NextOf(B, E, h) = B[i].b
  <2>1. i > 1 => i - 1 \in DOMAIN B /\ NextOf(B, E, i - 1) = B[i].b
    BY <1>1, <1>2, <1>3, Neighbours
  <2>2. QED
    BY <1>3, <2>1
<1>5. PICK b \in Nat : b = B[i].b
  BY <1>1, <1>2, <1>3, ExtentFacts
<1>6. PICK l \in Nat : l = B[h].b /\ l < b
  <2>1. B[h].b \in Nat /\ B[h].b < NextOf(B, E, h)
    BY <1>1, <1>2, <1>3, ExtentFacts
  <2>2. QED
    BY <1>4, <1>5, <2>1
<1>7. PICK e \in Nat : e = NextOf(B, E, i) /\ b < e
  BY <1>1, <1>2, <1>3, <1>5, ExtentFacts
<1>8. PICK M : Blocks(M, 1) /\ M[1] = B[h]
  <2>1. B[h] \in Block
    BY <1>2, <1>3, TypeOfBlocks
  <2>2. QED
    BY <2>1, SingleBlock
<1>9. M[1].b = l /\ M[1].hole = TRUE /\ l < e
  BY <1>6, <1>7, <1>8 DEF UnlinkLeft
<1>10. Spliced(B, C, h, i, M, n, 1, -1)
  <2>1. C = SubSeq(B, 1, i - 1) \o SubSeq(B, i + 1, n) /\ M[1] = B[i - 1] /\ i \in 1 .. n
    BY <1>2, <1>3, <1>8 DEF UnlinkLeft
  <2>2. Spliced(B, C, i - 1, i, M, n, 1, -1)
    BY <1>2, <1>3, <1>8, <2>1, UnlinkSpliced
  <2>3. QED
    BY <1>3, <2>2
<1>11. Ascends(M, e) /\ Extents(M, e) = {Piece(l, e, TRUE)}
  BY <1>8, <1>9, OneBlock
<1>12. PICK X : X = Extents(B, E)
  OBVIOUS
<1>13. PICK Y : Y = Extents(C, E)
  OBVIOUS
<1>14. PICK x : x = Piece(b, e, FALSE) /\ x = Ext(B, E, i)
  BY <1>5, <1>7 DEF Piece, Ext, UnlinkLeft
<1>15. PICK y : y = Piece(l, b, TRUE) /\ y = Ext(B, E, h)
  BY <1>4, <1>5, <1>6 DEF Piece, Ext, UnlinkLeft
<1>16. PICK t : t = Piece(l, e, TRUE)
  OBVIOUS
<1>17. \A z : z \in {y, x} <=> \E k \in h .. i : z = Ext(B, E, k)
  <2>1. h .. i = {h, i}
    BY <1>2, <1>3
  <2>2. QED
    BY <1>14, <1>15, <2>1
<1>18. Replaced(B, C, E, X, Y, {y, x}, {t})
  <2>1. M[1].b = B[h].b /\ Ascends(M, e) /\ {t} = Extents(M, e)
    BY <1>6, <1>9, <1>11, <1>16
  <2>2. QED
    <3>1. RunReplaced(B, C, h, i, M, n, 1, -1, E, e, X, Y, {y, x}, {t})
      BY <1>1, <1>7, <1>10, <1>12, <1>13, <1>17, <2>1 DEF RunReplaced
    <3>2. QED
      BY <3>1, SpliceReplaces
<1>19. /\ Ascends(C, E) /\ C[1].b = B[1].b /\ Y = (X \ {y, x}) \cup {t} /\ x \in X /\ y \in X
       /\ Apart(X, E) /\ Apart(Y, E)
       /\ HolesOf(Y) = (HolesOf(X) \ HolesOf({y, x})) \cup HolesOf({t})
       /\ HunksOf(Y) = (HunksOf(X) \ HunksOf({y, x})) \cup HunksOf({t})
  BY <1>18 DEF Replaced, Follow
<1>20. /\ HolesOf({y, x}) = {<<b - l, l>>} /\ HolesOf({t}) = {<<e - l, l>>}
       /\ HunksOf({y, x}) = {b} /\ HunksOf({t}) = {}
  <2>2. HolesOf({x}) = {} /\ HunksOf({x}) = {b} /\ HolesOf({y}) = {<<b - l, l>>} /\ HunksOf({y}) = {}
    BY <1>14, <1>15, IndexOfPieces
  <2>3. HolesOf({y, x}) = HolesOf({y}) \cup HolesOf({x}) /\ HunksOf({y, x}) = HunksOf({y}) \cup HunksOf({x})
    BY IndexOfPair
  <2>4. HolesOf({t}) = {<<e - l, l>>} /\ HunksOf({t}) = {}
    BY <1>16, IndexOfPieces
  <2>5. QED
    BY <2>2, <2>3, <2>4
<1>21. ho2 = HolesOf(Y) /\ hu \ {a.b} = HunksOf(Y)
  <2>1. ho2 = (ho \ {<<b - l, l>>}) \cup {<<e - l, l>>} /\ a.b = b
    BY <1>5, <1>6, <1>7 DEF UnlinkLeft
  <2>2. QED
    BY <1>1, <1>12, <1>19, <1>20, <2>1
<1>22. HolesApartBut(Y, t) /\ HeldIn(Y, H \ {a}, base)
  <2>1. HolesApart(X) /\ HeldIn(X, H, base) /\ a.b = b /\ a \in H
    BY <1>1, <1>5, <1>12 DEF UnlinkLeft
  <2>2. LeftFrom(X, Y, E, l, b, e, x, y, t, H, base, a)
    BY <1>14, <1>15, <1>16, <1>19, <2>1 DEF LeftFrom
  <2>3. QED
    BY <2>2, FreeToLeft
<1>23. h - 1 + 1 = h /\ 1 \in 1 .. 1
  BY <1>3
<1>24. h \in DOMAIN C /\ C[h] = M[1] /\ Len(C) = n - 1
  <2>1. /\ \A k \in 1 .. 1 : h - 1 + k \in DOMAIN C
    BY <1>10, SplicePlaces
  <2>2. (\A k \in 1 .. 1 : C[h - 1 + k] = M[k]) /\ Len(C) = n + (-1)
    BY <1>10 DEF Spliced
  <2>3. h - 1 + 1 \in DOMAIN C /\ C[h - 1 + 1] = M[1] /\ Len(C) = n - 1
    BY <1>2, <1>23, <2>1, <2>2
  <2>4. QED
    BY <1>23, <2>3
<1>25. Ext(C, E, h) = t
  <2>1. \A k \in 1 .. 1 : Ext(C, E, h - 1 + k) = Ext(M, e, k)
    BY <1>6, <1>7, <1>9, <1>10, SpliceEnds
  <2>2. Ext(C, E, h) = Ext(M, e, 1)
    BY <1>23, <2>1
  <2>3. Ext(M, e, 1) = t
    BY <1>8, <1>9, <1>16 DEF Ext, NextOf, Piece, Blocks
  <2>4. QED
    BY <2>2, <2>3
<1>26. Half(C, E, ho2, hu \ {a.b}, H \ {a}, base)
  BY <1>1, <1>13, <1>19, <1>21, <1>22 DEF Half
<1>27. C[h].hole = TRUE
  BY <1>9, <1>24
<1>28. HolesApartBut(Extents(C, E), Ext(C, E, h))
  BY <1>13, <1>22, <1>25
<1>29. h = IF Len(C) < Len(B) THEN i - 1 ELSE i
  BY <1>2, <1>3, <1>24
<1>30. QED
  BY <1>24, <1>26, <1>27, <1>28, <1>29 DEF HoleMade, Fusible

\* The hole at i takes in the one on its right, at g.
UnlinkRight(B, C, E, ho, ho2, hu, H, base, i, g) ==
  /\ Fusible(B, E, ho, hu, H, base, i)
  /\ g = i + 1 /\ i < Len(B) /\ B[g].hole = TRUE
  /\ C = SubSeq(B, 1, g - 1) \o SubSeq(B, g + 1, Len(B))
  /\ ho2 = (ho \ {<<NextOf(B, E, g) - B[g].b, B[g].b>>, <<B[g].b - B[i].b, B[i].b>>})
             \cup {<<NextOf(B, E, g) - B[i].b, B[i].b>>}

LEMMA UnlinkFuses ==
  ASSUME NEW B, NEW C, NEW E, NEW ho, NEW ho2, NEW hu, NEW H, NEW base, NEW i, NEW g,
         UnlinkRight(B, C, E, ho, ho2, hu, H, base, i, g)
  PROVE  Half(C, E, ho2, hu, H, base) /\ HolesApart(Extents(C, E))
<1>1. Ascends(B, E) /\ B[1].b = 0 /\ ho = HolesOf(Extents(B, E)) /\ hu = HunksOf(Extents(B, E))
      /\ HeldIn(Extents(B, E), H, base)
  BY DEF UnlinkRight, Fusible, Half
<1>2. PICK n \in Nat : n = Len(B) /\ n # 0 /\ DOMAIN B = 1 .. n /\ Blocks(B, n)
  BY <1>1, ExtentFacts DEF Ascends, Blocks
<1>3. g \in 1 .. n /\ i \in 1 .. n /\ g = i + 1 /\ i = g - 1 /\ g > 1
  BY <1>2 DEF UnlinkRight, Fusible
<1>4. NextOf(B, E, i) = B[g].b
  <2>1. g > 1 => g - 1 \in DOMAIN B /\ NextOf(B, E, g - 1) = B[g].b
    BY <1>1, <1>2, <1>3, Neighbours
  <2>2. QED
    BY <1>3, <2>1
<1>5. PICK m \in Nat : m = B[g].b
  BY <1>1, <1>2, <1>3, ExtentFacts
<1>6. PICK b \in Nat : b = B[i].b /\ b < m
  <2>1. B[i].b \in Nat /\ B[i].b < NextOf(B, E, i)
    BY <1>1, <1>2, <1>3, ExtentFacts
  <2>2. QED
    BY <1>4, <1>5, <2>1
<1>7. PICK e \in Nat : e = NextOf(B, E, g) /\ m < e
  BY <1>1, <1>2, <1>3, <1>5, ExtentFacts
<1>8. PICK M : Blocks(M, 1) /\ M[1] = B[i]
  <2>1. B[i] \in Block
    BY <1>2, <1>3, TypeOfBlocks
  <2>2. QED
    BY <2>1, SingleBlock
<1>9. M[1].b = b /\ M[1].hole = TRUE /\ b < e
  BY <1>6, <1>7, <1>8 DEF UnlinkRight, Fusible
<1>10. Spliced(B, C, i, g, M, n, 1, -1)
  <2>1. C = SubSeq(B, 1, g - 1) \o SubSeq(B, g + 1, n) /\ M[1] = B[g - 1]
    BY <1>2, <1>3, <1>8 DEF UnlinkRight, Fusible
  <2>2. Spliced(B, C, g - 1, g, M, n, 1, -1)
    BY <1>2, <1>3, <1>8, <2>1, UnlinkSpliced
  <2>3. QED
    BY <1>3, <2>2
<1>11. Ascends(M, e) /\ Extents(M, e) = {Piece(b, e, TRUE)}
  BY <1>8, <1>9, OneBlock
<1>12. PICK X : X = Extents(B, E)
  OBVIOUS
<1>13. PICK Y : Y = Extents(C, E)
  OBVIOUS
<1>14. PICK z : z = Piece(m, e, TRUE) /\ z = Ext(B, E, g)
  BY <1>5, <1>7 DEF Piece, Ext, UnlinkRight, Fusible
<1>15. PICK t : t = Piece(b, m, TRUE) /\ t = Ext(B, E, i)
  BY <1>4, <1>5, <1>6 DEF Piece, Ext, UnlinkRight, Fusible
<1>16. PICK u : u = Piece(b, e, TRUE)
  OBVIOUS
<1>17. \A y : y \in {t, z} <=> \E k \in i .. g : y = Ext(B, E, k)
  <2>1. i .. g = {i, g}
    BY <1>2, <1>3
  <2>2. QED
    BY <1>14, <1>15, <2>1
<1>18. Replaced(B, C, E, X, Y, {t, z}, {u})
  <2>1. M[1].b = B[i].b /\ Ascends(M, e) /\ {u} = Extents(M, e)
    BY <1>6, <1>9, <1>11, <1>16
  <2>2. QED
    <3>1. RunReplaced(B, C, i, g, M, n, 1, -1, E, e, X, Y, {t, z}, {u})
      BY <1>1, <1>7, <1>10, <1>12, <1>13, <1>17, <2>1 DEF RunReplaced
    <3>2. QED
      BY <3>1, SpliceReplaces
<1>19. /\ Ascends(C, E) /\ C[1].b = B[1].b /\ Y = (X \ {t, z}) \cup {u} /\ t \in X /\ z \in X
       /\ Apart(X, E) /\ Apart(Y, E)
       /\ HolesOf(Y) = (HolesOf(X) \ HolesOf({t, z})) \cup HolesOf({u})
       /\ HunksOf(Y) = (HunksOf(X) \ HunksOf({t, z})) \cup HunksOf({u})
  BY <1>18 DEF Replaced, Follow
<1>20. /\ HolesOf({t, z}) = {<<m - b, b>>, <<e - m, m>>} /\ HolesOf({u}) = {<<e - b, b>>}
       /\ HunksOf({t, z}) = {} /\ HunksOf({u}) = {}
  <2>2. HolesOf({t}) = {<<m - b, b>>} /\ HunksOf({t}) = {} /\ HolesOf({z}) = {<<e - m, m>>} /\ HunksOf({z}) = {}
    BY <1>14, <1>15, IndexOfPieces
  <2>3. HolesOf({t, z}) = HolesOf({t}) \cup HolesOf({z}) /\ HunksOf({t, z}) = HunksOf({t}) \cup HunksOf({z})
    BY IndexOfPair
  <2>4. HolesOf({u}) = {<<e - b, b>>} /\ HunksOf({u}) = {}
    BY <1>16, IndexOfPieces
  <2>5. QED
    BY <2>2, <2>3, <2>4
<1>21. ho2 = HolesOf(Y) /\ hu = HunksOf(Y)
  <2>1. ho2 = (ho \ {<<e - m, m>>, <<m - b, b>>}) \cup {<<e - b, b>>}
    BY <1>5, <1>6, <1>7 DEF UnlinkRight, Fusible
  <2>2. QED
    BY <1>1, <1>12, <1>19, <1>20, <2>1
<1>22. HolesApart(Y) /\ HeldIn(Y, H, base)
  <2>1. HolesApartBut(X, t) /\ HeldIn(X, H, base)
    BY <1>1, <1>12, <1>15 DEF UnlinkRight, Fusible
  <2>2. RightFrom(X, Y, E, b, m, e, t, z, u, H, base)
    BY <1>14, <1>15, <1>16, <1>19, <2>1 DEF RightFrom
  <2>3. QED
    BY <2>2, FuseToRight
<1>23. QED
  BY <1>1, <1>13, <1>19, <1>21, <1>22 DEF Half

\* A segment, field by field.
Segment(base, E, B, ho, hu) == [base |-> base, endpost |-> E, blocks |-> B, holes |-> ho, hunks |-> hu]

LEMMA EndIsNext ==
  ASSUME NEW base, NEW E, NEW B, NEW ho, NEW hu, NEW i
  PROVE  EndOf(Segment(base, E, B, ho, hu), i) = NextOf(B, E, i)
BY DEF Segment, EndOf, NextOf

LEMMA FuseLeftFrees ==
  ASSUME NEW B, NEW E, NEW ho, NEW hu, NEW H, NEW base, Half(B, E, ho, hu, H, base), HolesApart(Extents(B, E)),
         NEW i \in DOMAIN B, B[i].hole = FALSE, NEW a \in H, a.b = B[i].b
  PROVE  \E C, ho2, j : /\ FuseLeft(Segment(base, E, B, ho, hu \ {a.b}), i) = Segment(base, E, C, ho2, hu \ {a.b})
                        /\ HoleMade(B, C, i, E, ho, hu \ {a.b}, ho2, j, H \ {a}, base)
<1>1. PICK s : s = Segment(base, E, B, ho, hu \ {a.b})
  OBVIOUS
<1>2. PICK e : e = NextOf(B, E, i) /\ e = EndOf(s, i)
  BY <1>1, EndIsNext
<1>3. Ascends(B, E)
  BY DEF Half
<1>4. i \in Nat
  BY <1>3, ExtentFacts
<1>5. CASE i > 1 /\ B[i - 1].hole
  <2>1. PICK h : h = i - 1
    OBVIOUS
  <2>2. B[h].hole = TRUE
    <3>1. h \in DOMAIN B
      BY <1>3, <1>5, <2>1, Neighbours
    <3>2. B[h].hole \in BOOLEAN
      BY <1>3, <3>1, ExtentFacts
    <3>3. QED
      BY <1>5, <2>1, <3>2
  <2>3. PICK C : C = SubSeq(B, 1, i - 1) \o SubSeq(B, i + 1, Len(B))
    OBVIOUS
  <2>4. PICK ho2 : ho2 = (ho \ {<<B[i].b - B[h].b, B[h].b>>}) \cup {<<e - B[h].b, B[h].b>>}
    OBVIOUS
  <2>5. FuseLeft(s, i) = Segment(base, E, C, ho2, hu \ {a.b})
    BY <1>1, <1>2, <1>5, <2>1, <2>3, <2>4 DEF FuseLeft, Lists!RemoveAt, Segment
  <2>6. UnlinkLeft(B, C, E, ho, ho2, hu, H, base, i, h, a)
    BY <1>2, <1>5, <2>1, <2>2, <2>3, <2>4 DEF UnlinkLeft
  <2>7. HoleMade(B, C, i, E, ho, hu \ {a.b}, ho2, h, H \ {a}, base)
    BY <2>6, UnlinkFrees
  <2>8. QED
    BY <1>1, <2>5, <2>7
<1>6. CASE ~ (i > 1 /\ B[i - 1].hole)
  <2>1. PICK C : C = [B EXCEPT ![i].hole = TRUE]
    OBVIOUS
  <2>2. PICK ho2 : ho2 = ho \cup {<<e - B[i].b, B[i].b>>}
    OBVIOUS
  <2>3. FuseLeft(s, i) = Segment(base, E, C, ho2, hu \ {a.b})
    BY <1>1, <1>2, <1>6, <2>1, <2>2 DEF FuseLeft, Segment
  <2>4. HoleMade(B, C, i, E, ho, hu \ {a.b}, ho2, i, H \ {a}, base)
    BY <1>2, <1>6, <2>1, <2>2, MarkFrees
  <2>5. QED
    BY <1>1, <2>3, <2>4
<1>7. QED
  BY <1>5, <1>6

LEMMA FuseRightMends ==
  ASSUME NEW B, NEW E, NEW ho, NEW hu, NEW H, NEW base, NEW i, Fusible(B, E, ho, hu, H, base, i)
  PROVE  \E C, ho2 : /\ FuseRight(Segment(base, E, B, ho, hu), i) = Segment(base, E, C, ho2, hu)
                     /\ Half(C, E, ho2, hu, H, base) /\ HolesApart(Extents(C, E))
<1>1. PICK s : s = Segment(base, E, B, ho, hu)
  OBVIOUS
<1>2. Ascends(B, E) /\ i \in DOMAIN B
  BY DEF Half, Fusible
<1>3. PICK n \in Nat : n = Len(B) /\ DOMAIN B = 1 .. n
  BY <1>2, ExtentFacts
<1>4. PICK g : g = i + 1
  OBVIOUS
<1>5. PICK e : e = NextOf(B, E, g) /\ e = EndOf(s, g)
  BY <1>1, EndIsNext
<1>6. CASE i < Len(B) /\ B[g].hole
  <2>1. g \in DOMAIN B /\ B[g].hole \in BOOLEAN
    <3>1. g \in DOMAIN B
      BY <1>2, <1>3, <1>4, <1>6
    <3>2. QED
      BY <1>2, <3>1, ExtentFacts
  <2>2. B[g].hole = TRUE
    BY <1>6, <2>1
  <2>3. PICK C : C = SubSeq(B, 1, g - 1) \o SubSeq(B, g + 1, Len(B))
    OBVIOUS
  <2>4. PICK ho2 : ho2 = (ho \ {<<e - B[g].b, B[g].b>>, <<B[g].b - B[i].b, B[i].b>>}) \cup {<<e - B[i].b, B[i].b>>}
    OBVIOUS
  <2>5. FuseRight(s, i) = Segment(base, E, C, ho2, hu)
    BY <1>1, <1>4, <1>5, <1>6, <2>3, <2>4 DEF FuseRight, Lists!RemoveAt, Segment
  <2>6. UnlinkRight(B, C, E, ho, ho2, hu, H, base, i, g)
    BY <1>4, <1>5, <1>6, <2>2, <2>3, <2>4 DEF UnlinkRight
  <2>7. Half(C, E, ho2, hu, H, base) /\ HolesApart(Extents(C, E))
    BY <2>6, UnlinkFuses
  <2>8. QED
    BY <1>1, <2>5, <2>7
<1>7. CASE ~ (i < Len(B) /\ B[g].hole)
  <2>1. FuseRight(s, i) = s
    BY <1>1, <1>4, <1>7 DEF FuseRight, Segment
  <2>2. ASSUME NEW z \in Extents(B, E), z.hole, z.b = Ext(B, E, i).e
        PROVE  FALSE
    <3>1. z.b = NextOf(B, E, i)
      BY <2>2 DEF Ext
    <3>2. i < Len(B) /\ z = Ext(B, E, g)
      BY <1>2, <1>4, <3>1, Neighbours
    <3>3. B[g].hole
      BY <2>2, <3>2 DEF Ext
    <3>4. QED
      BY <1>7, <3>2, <3>3
  <2>3. HolesApart(Extents(B, E))
    BY <2>2, NothingToFuse DEF Fusible
  <2>4. QED
    BY <1>1, <2>1, <2>3 DEF Fusible
<1>8. QED
  BY <1>6, <1>7

\* The list and its indexes are in order, and no hole borders on another.
Whole(s, H, B, ho, hu) ==
  /\ s = Segment(SegBase, SegSize, B, ho, hu) /\ Half(B, SegSize, ho, hu, H, SegBase)
  /\ HolesApart(Extents(B, SegSize))

LEMMA SoundIsWhole ==
  ASSUME NEW s, NEW H
  PROVE  Sound(s, H) <=> \E B, ho, hu : Whole(s, H, B, ho, hu)
<1>1. ASSUME Sound(s, H)
      PROVE  Whole(s, H, s.blocks, s.holes, s.hunks)
  <2>1. s.base = SegBase /\ s.endpost = SegSize
    BY <1>1 DEF Sound
  <2>2. s = Segment(SegBase, SegSize, s.blocks, s.holes, s.hunks)
    BY <1>1, <2>1 DEF Sound, Segment
  <2>3. /\ Ascends(s.blocks, SegSize) /\ s.blocks[1].b = 0
        /\ s.holes = HolesOf(Extents(s.blocks, SegSize)) /\ s.hunks = HunksOf(Extents(s.blocks, SegSize))
        /\ HolesApart(Extents(s.blocks, SegSize)) /\ HeldIn(Extents(s.blocks, SegSize), H, SegBase)
    BY <1>1, <2>1 DEF Sound
  <2>4. QED
    BY <2>2, <2>3 DEF Whole, Half
<1>2. ASSUME NEW B, NEW ho, NEW hu, Whole(s, H, B, ho, hu)
      PROVE  Sound(s, H)
  <2>1. /\ s = [base |-> SegBase, endpost |-> SegSize, blocks |-> B, holes |-> ho, hunks |-> hu]
        /\ Ascends(B, SegSize) /\ B[1].b = 0 /\ ho = HolesOf(Extents(B, SegSize)) /\ hu = HunksOf(Extents(B, SegSize))
        /\ HeldIn(Extents(B, SegSize), H, SegBase) /\ HolesApart(Extents(B, SegSize))
    BY <1>2 DEF Whole, Half, Segment
  <2>2. s.base = SegBase /\ s.endpost = SegSize /\ s.blocks = B /\ s.holes = ho /\ s.hunks = hu
    BY <2>1
  <2>3. s = [base |-> s.base, endpost |-> s.endpost, blocks |-> s.blocks, holes |-> s.holes, hunks |-> s.hunks]
    BY <2>1, <2>2
  <2>4. QED
    BY <2>1, <2>2, <2>3 DEF Sound
<1>3. QED
  BY <1>1, <1>2

\* At finds the block.
LEMMA AtFinds ==
  ASSUME NEW B, NEW E, Ascends(B, E), NEW k \in DOMAIN B, NEW s, s.blocks = B
  PROVE  At(s, B[k].b) = k
<1>1. \A i \in DOMAIN B : B[i].b = B[k].b => i = k
  BY ExtentFacts
<1>2. At(s, B[k].b) = CHOOSE i \in DOMAIN B : B[i].b = B[k].b
  BY DEF At
<1>3. PICK i : i = CHOOSE j \in DOMAIN B : B[j].b = B[k].b
  OBVIOUS
<1>4. i \in DOMAIN B /\ B[i].b = B[k].b
  BY <1>3
<1>5. QED
  BY <1>1, <1>2, <1>3, <1>4

\* What SegDeallocate makes of the segment s, step by step.
Deallocated(s, a, s1, i, fl, r) ==
  /\ s1 = [s EXCEPT !.hunks = @ \ {a.b}] /\ i = At(s1, a.b) /\ fl = FuseLeft(s1, i)
  /\ r = FuseRight(fl, IF Len(fl.blocks) < Len(s1.blocks) THEN i - 1 ELSE i)

LEMMA DeallocateKeepsSound ==
  ASSUME NEW s, NEW H, Sound(s, H), NEW a \in H, NEW s1, NEW i, NEW fl, NEW r, Deallocated(s, a, s1, i, fl, r)
  PROVE  Sound(r, H \ {a})
<1>1. PICK B, ho, hu : Whole(s, H, B, ho, hu)
  BY SoundIsWhole
<1>2. Half(B, SegSize, ho, hu, H, SegBase) /\ HolesApart(Extents(B, SegSize)) /\ Ascends(B, SegSize)
  BY <1>1 DEF Whole, Half
<1>3. s1 = Segment(SegBase, SegSize, B, ho, hu \ {a.b})
  BY <1>1 DEF Whole, Segment, Deallocated
<1>4. s1.blocks = B
  BY <1>3 DEF Segment
<1>5. PICK k \in DOMAIN B : B[k].b = a.b /\ ~ B[k].hole
  <2>1. PICK x \in Extents(B, SegSize) : ~ x.hole /\ x.b = a.b
    BY <1>2 DEF Half, HeldIn
  <2>2. QED
    BY <2>1 DEF Extents, Ext
<1>6. i = k
  <2>1. At(s1, B[k].b) = k
    BY <1>2, <1>4, AtFinds
  <2>2. QED
    BY <1>5, <2>1 DEF Deallocated
<1>7. i \in DOMAIN B /\ B[i].hole = FALSE /\ a.b = B[i].b
  <2>1. B[k].hole \in BOOLEAN
    BY <1>2, ExtentFacts
  <2>2. QED
    BY <1>5, <1>6, <2>1
<1>8. PICK C, ho2, j : /\ fl = Segment(SegBase, SegSize, C, ho2, hu \ {a.b})
                       /\ HoleMade(B, C, i, SegSize, ho, hu \ {a.b}, ho2, j, H \ {a}, SegBase)
  <2>1. fl = FuseLeft(Segment(SegBase, SegSize, B, ho, hu \ {a.b}), i)
    BY <1>3 DEF Deallocated
  <2>2. QED
    BY <1>2, <1>7, <2>1, FuseLeftFrees
<1>9. fl.blocks = C
  BY <1>8 DEF Segment
<1>10. j = IF Len(fl.blocks) < Len(s1.blocks) THEN i - 1 ELSE i
  BY <1>4, <1>8, <1>9 DEF HoleMade, Fusible
<1>11. r = FuseRight(Segment(SegBase, SegSize, C, ho2, hu \ {a.b}), j)
  BY <1>8, <1>10 DEF Deallocated
<1>12. Fusible(C, SegSize, ho2, hu \ {a.b}, H \ {a}, SegBase, j)
  BY <1>8 DEF HoleMade
<1>13. PICK D, ho3 : /\ r = Segment(SegBase, SegSize, D, ho3, hu \ {a.b})
                     /\ Half(D, SegSize, ho3, hu \ {a.b}, H \ {a}, SegBase) /\ HolesApart(Extents(D, SegSize))
  BY <1>11, <1>12, FuseRightMends
<1>14. Whole(r, H \ {a}, D, ho3, hu \ {a.b})
  BY <1>13 DEF Whole
<1>15. QED
  BY <1>14, SoundIsWhole
-----------------------------------------------------------------------------
(* Carving a hunk                                                          *)

\* What follows the hunk within the hole: a hole, r, or nothing; and its extents.
Rest(r, q, me, he) ==
  \/ me < he /\ q = 1 /\ Blocks(r, 1) /\ r[1] = [b |-> me, hole |-> TRUE]
  \/ me = he /\ q = 0 /\ Blocks(r, 0)
RestOf(me, he) == IF me < he THEN {Piece(me, he, TRUE)} ELSE {}

LEMMA NoRest ==
  ASSUME NEW e \in Nat
  PROVE  RestOf(e, e) = {}
<1>1. ~ (e < e)
  OBVIOUS
<1>2. QED
  BY <1>1, Zenon DEF RestOf

LEMMA RestFields ==
  ASSUME NEW me, NEW he
  PROVE  (\A z \in RestOf(me, he) : z.b = me /\ z.e = he) /\ (\A z \in RestOf(me, he) : z.hole)
BY DEF RestOf, Piece

LEMMA BlocksAssociate ==
  ASSUME NEW s \in Seq(Block), NEW t \in Seq(Block), NEW u \in Seq(Block)
  PROVE  (s \o t) \o u = s \o (t \o u)
BY ConcatAssociative

\* C is B with the p blocks l, the block k and the q blocks r for the block at i; M are
\* those m blocks.
CarvedList(B, n, C, i, l, p, k, r, q) ==
  /\ Blocks(B, n) /\ i \in 1 .. n /\ Blocks(l, p) /\ Blocks(k, 1) /\ Blocks(r, q)
  /\ C = SubSeq(B, 1, i - 1) \o l \o k \o r \o SubSeq(B, i + 1, n)
CarvedRun(B, n, C, i, l, p, k, r, q, M, m) ==
  /\ Spliced(B, C, i, i, M, n, m, m - 1) /\ Blocks(M, m) /\ m = p + 1 + q
  /\ (\A x \in 1 .. p : M[x] = l[x]) /\ M[p + 1] = k[1] /\ (\A x \in 1 .. q : M[p + 1 + x] = r[x])

LEMMA CarveList ==
  ASSUME NEW B, NEW n, NEW C, NEW i, NEW l, NEW p, NEW k, NEW r, NEW q, CarvedList(B, n, C, i, l, p, k, r, q)
  PROVE  \E M, m : CarvedRun(B, n, C, i, l, p, k, r, q, M, m)
<1>0. Blocks(B, n) /\ i \in 1 .. n /\ Blocks(l, p) /\ Blocks(k, 1) /\ Blocks(r, q)
  BY DEF CarvedList
<1>1. n \in Nat /\ p \in Nat /\ q \in Nat
  BY <1>0 DEF Blocks
<1>2. PICK L : L = SubSeq(B, 1, i - 1)
  OBVIOUS
<1>3. L \in Seq(Block)
  <2>1. i - 1 = i - 1 /\ n - i = n - i
    OBVIOUS
  <2>2. Around(B, i, L, i - 1, SubSeq(B, i + 1, n), n - i)
    BY <1>0, <1>2, CutAround
  <2>3. QED
    BY <2>2 DEF Around, Blocks
<1>4. PICK F : F = l \o k
  OBVIOUS
<1>5. PICK M : M = F \o r
  OBVIOUS
<1>6. Joined(F, l, p, k, 1)
  BY <1>0, <1>4, ConcatBlocks
<1>7. Blocks(F, p + 1)
  BY <1>6 DEF Joined
<1>8. Joined(M, F, p + 1, r, q)
  BY <1>0, <1>5, <1>7, ConcatBlocks
<1>9. Blocks(M, p + 1 + q)
  BY <1>8 DEF Joined
<1>10. \A x \in 1 .. p : M[x] = l[x]
  BY <1>1, <1>6, <1>8 DEF Joined
<1>11. M[p + 1] = k[1]
  <2>1. F[p + 1] = k[1]
    BY <1>6 DEF Joined
  <2>2. p + 1 \in 1 .. p + 1
    BY <1>1
  <2>3. QED
    BY <1>8, <2>1, <2>2 DEF Joined
<1>12. \A x \in 1 .. q : M[p + 1 + x] = r[x]
  BY <1>8 DEF Joined
<1>13. L \o l \o k \o r = L \o M
  <2>1. l \in Seq(Block) /\ k \in Seq(Block) /\ r \in Seq(Block) /\ F \in Seq(Block)
    BY <1>0, <1>7 DEF Blocks
  <2>2. (L \o l) \o k = L \o (l \o k)
    BY <1>3, <2>1, BlocksAssociate
  <2>3. (L \o F) \o r = L \o (F \o r)
    BY <1>3, <2>1, BlocksAssociate
  <2>4. QED
    BY <1>4, <1>5, <2>2, <2>3
<1>14. C = SubSeq(B, 1, i - 1) \o M \o SubSeq(B, i + 1, n)
  BY <1>2, <1>13 DEF CarvedList
<1>15. PICK m \in Nat : m = p + 1 + q /\ m # 0
  BY <1>1
<1>16. Spliced(B, C, i, i, M, n, m, m - 1)
  BY <1>0, <1>9, <1>14, <1>15, ConcatSpliced
<1>17. CarvedRun(B, n, C, i, l, p, k, r, q, M, m)
  BY <1>9, <1>10, <1>11, <1>12, <1>15, <1>16 DEF CarvedRun
<1>18. QED
  BY <1>17

\* The extents of the hunk and what follows it; and with a block in front.
HunkThen(M, r, q, mb, me, he) ==
  /\ mb \in Nat /\ me \in Nat /\ he \in Nat /\ mb < me /\ Rest(r, q, me, he)
  /\ Blocks(M, 1 + q) /\ M[1] = [b |-> mb, hole |-> FALSE] /\ \A x \in 1 .. q : M[1 + x] = r[x]

HunkRest(M, mb, me, he) == Ascends(M, he) /\ Extents(M, he) = {Piece(mb, me, FALSE)} \cup RestOf(me, he)

LEMMA HunkAndRest ==
  ASSUME NEW M, NEW r, NEW q, NEW mb, NEW me, NEW he, HunkThen(M, r, q, mb, me, he)
  PROVE  HunkRest(M, mb, me, he)
<1> USE DEF HunkThen
<1>1. M[1].b = mb /\ M[1].hole = FALSE
  OBVIOUS
<1>2. CASE me < he /\ q = 1 /\ r[1] = [b |-> me, hole |-> TRUE]
  <2>1. M[2] = r[1]
    BY <1>2
  <2>2. M[2].b = me /\ M[2].hole = TRUE
    BY <1>2, <2>1
  <2>3. Blocks(M, 2)
    BY <1>2
  <2>4. Ascends(M, he) /\ Extents(M, he) = {Piece(mb, me, FALSE), Piece(me, he, TRUE)}
    BY <1>1, <1>2, <2>2, <2>3, TwoBlocks
  <2>5. QED
    BY <1>2, <2>4 DEF RestOf, HunkRest
<1>3. CASE me = he /\ q = 0
  <2>1. Blocks(M, 1) /\ mb < he
    BY <1>3
  <2>2. Ascends(M, he) /\ Extents(M, he) = {Piece(mb, he, FALSE)}
    BY <1>1, <2>1, OneBlock
  <2>3. RestOf(me, he) = {}
    BY <1>3, NoRest
  <2>4. QED
    BY <1>3, <2>2, <2>3 DEF HunkRest
<1>4. QED
  BY <1>2, <1>3 DEF Rest

BlockThen(M, r, q, l, mb, me, he) ==
  /\ l \in Nat /\ mb \in Nat /\ me \in Nat /\ he \in Nat /\ l < mb /\ mb < me /\ Rest(r, q, me, he)
  /\ Blocks(M, 2 + q) /\ M[1].b = l /\ M[2] = [b |-> mb, hole |-> FALSE] /\ \A x \in 1 .. q : M[2 + x] = r[x]

BlockHunkRest(M, l, mb, me, he) ==
  Ascends(M, he) /\ Extents(M, he) = {Piece(l, mb, M[1].hole)} \cup {Piece(mb, me, FALSE)} \cup RestOf(me, he)

LEMMA BlockHunkAndRest ==
  ASSUME NEW M, NEW r, NEW q, NEW l, NEW mb, NEW me, NEW he, BlockThen(M, r, q, l, mb, me, he)
  PROVE  BlockHunkRest(M, l, mb, me, he)
<1> USE DEF BlockThen
<1>1. M[2].b = mb /\ M[2].hole = FALSE
  OBVIOUS
<1>2. CASE me < he /\ q = 1 /\ r[1] = [b |-> me, hole |-> TRUE]
  <2>1. M[3] = r[1]
    BY <1>2
  <2>2. M[3].b = me /\ M[3].hole = TRUE
    BY <1>2, <2>1
  <2>3. Blocks(M, 3)
    BY <1>2
  <2>4. Ascends(M, he) /\ Extents(M, he) = {Piece(l, mb, M[1].hole), Piece(mb, me, FALSE), Piece(me, he, TRUE)}
    BY <1>1, <1>2, <2>2, <2>3, ThreeBlocks, ZenonT(60)
  <2>5. QED
    BY <1>2, <2>4 DEF RestOf, BlockHunkRest
<1>3. CASE me = he /\ q = 0
  <2>1. Blocks(M, 2) /\ mb < he
    BY <1>3
  <2>2. Ascends(M, he) /\ Extents(M, he) = {Piece(l, mb, M[1].hole), Piece(mb, he, FALSE)}
    BY <1>1, <2>1, TwoBlocks
  <2>3. RestOf(me, he) = {}
    BY <1>3, NoRest
  <2>4. QED
    BY <1>3, <2>2, <2>3 DEF BlockHunkRest
<1>4. QED
  BY <1>2, <1>3 DEF Rest

\* The three ways to carve: what is in front of the hunk stays a hole; there is nothing in
\* front of it; or the hunk on the left grows over it.
CutFrom(X, Y, hb, mb, me, he, x, u, R, N) ==
  /\ hb \in Nat /\ mb \in Nat /\ me \in Nat /\ he \in Nat /\ hb <= mb /\ mb < me /\ me <= he
  /\ HoleAt(x, hb, he) /\ HunkAt(u, mb, me) /\ x \in X /\ R \subseteq X
  /\ Y = (X \ R) \cup (N \cup {u} \cup RestOf(me, he))

LEMMA CutIsCarved ==
  ASSUME NEW X, NEW Y, NEW hb, NEW mb, NEW me, NEW he, NEW x, NEW u, NEW R, NEW N,
         CutFrom(X, Y, hb, mb, me, he, x, u, R, N),
         \A z \in Y : z.hole => (z \in X /\ z # x) \/ (z.b = hb /\ z.e = mb) \/ (z.b = me /\ z.e = he),
         \A z \in Y : ~ z.hole => z.b = mb \/ \E w \in X : ~ w.hole /\ w.b = z.b,
         \A w \in X : ~ w.hole => \E z \in Y : ~ z.hole /\ z.b = w.b /\ w.e <= z.e
  PROVE  Carved(X, Y, hb, mb, me, he)
BY DEF Carved, CutFrom, HoleAt, HunkAt

LEMMA CarveKeeping ==
  ASSUME NEW X, NEW Y, NEW hb, NEW mb, NEW me, NEW he, NEW E, Apart(X, E), NEW x, NEW u, NEW f,
         HoleAt(f, hb, mb), CutFrom(X, Y, hb, mb, me, he, x, u, {x}, {f})
  PROVE  Carved(X, Y, hb, mb, me, he)
<1>1. HoleAt(x, hb, he) /\ HunkAt(u, mb, me)
  BY DEF CutFrom
<1>2. u.b = mb /\ f.b = hb /\ f.e = mb
  BY <1>1, PieceFields
<1>3. x.hole /\ ~ u.hole /\ f.hole
  BY <1>1, PieceFields
<1>4. (\A z \in RestOf(me, he) : z.b = me /\ z.e = he) /\ (\A z \in RestOf(me, he) : z.hole)
  BY RestFields
<1>5. x \in X /\ Y = (X \ {x}) \cup ({f} \cup {u} \cup RestOf(me, he))
  BY DEF CutFrom
<1>6. \A z \in Y : z.hole => (z \in X /\ z # x) \/ (z.b = hb /\ z.e = mb) \/ (z.b = me /\ z.e = he)
  BY <1>2, <1>3, <1>4, <1>5
<1>7. \A z \in Y : ~ z.hole => z.b = mb \/ \E w \in X : ~ w.hole /\ w.b = z.b
  BY <1>2, <1>3, <1>4, <1>5
<1>8. \A w \in X : ~ w.hole => \E z \in Y : ~ z.hole /\ z.b = w.b /\ w.e <= z.e
  <2>1. \A w \in X : ~ w.hole => w \in Y
    BY <1>3, <1>5
  <2>2. \A w \in X : w.e <= w.e
    BY DEF Apart
  <2>3. QED
    BY <2>1, <2>2
<1>9. QED
  BY <1>6, <1>7, <1>8, CutIsCarved

LEMMA CarveFlush ==
  ASSUME NEW X, NEW Y, NEW hb, NEW mb, NEW me, NEW he, NEW E, Apart(X, E), NEW x, NEW u,
         CutFrom(X, Y, hb, mb, me, he, x, u, {x}, {})
  PROVE  Carved(X, Y, hb, mb, me, he)
<1>1. HoleAt(x, hb, he) /\ HunkAt(u, mb, me)
  BY DEF CutFrom
<1>2. u.b = mb
  BY <1>1, PieceFields
<1>3. x.hole /\ ~ u.hole
  BY <1>1, PieceFields
<1>4. (\A z \in RestOf(me, he) : z.b = me /\ z.e = he) /\ (\A z \in RestOf(me, he) : z.hole)
  BY RestFields
<1>5. x \in X /\ Y = (X \ {x}) \cup ({u} \cup RestOf(me, he))
  BY DEF CutFrom
<1>6. \A z \in Y : z.hole => (z \in X /\ z # x) \/ (z.b = hb /\ z.e = mb) \/ (z.b = me /\ z.e = he)
  BY <1>3, <1>4, <1>5
<1>7. \A z \in Y : ~ z.hole => z.b = mb \/ \E w \in X : ~ w.hole /\ w.b = z.b
  BY <1>2, <1>3, <1>4, <1>5
<1>8. \A w \in X : ~ w.hole => \E z \in Y : ~ z.hole /\ z.b = w.b /\ w.e <= z.e
  <2>1. \A w \in X : ~ w.hole => w \in Y
    BY <1>3, <1>5
  <2>2. \A w \in X : w.e <= w.e
    BY DEF Apart
  <2>3. QED
    BY <2>1, <2>2
<1>9. QED
  BY <1>6, <1>7, <1>8, CutIsCarved

LEMMA CarveAbsorbing ==
  ASSUME NEW X, NEW Y, NEW hb, NEW mb, NEW me, NEW he, NEW E, Apart(X, E), NEW x, NEW u, NEW l, NEW y, NEW f,
         HunkAt(y, l, hb), HunkAt(f, l, mb), CutFrom(X, Y, hb, mb, me, he, x, u, {y, x}, {f})
  PROVE  Carved(X, Y, hb, mb, me, he)
<1>1. HoleAt(x, hb, he) /\ HunkAt(u, mb, me)
  BY DEF CutFrom
<1>2. u.b = mb /\ y.b = l /\ y.e = hb /\ f.b = l /\ f.e = mb
  BY <1>1, PieceFields
<1>3. x.hole /\ ~ u.hole /\ ~ y.hole /\ ~ f.hole
  BY <1>1, PieceFields
<1>4. (\A z \in RestOf(me, he) : z.b = me /\ z.e = he) /\ (\A z \in RestOf(me, he) : z.hole)
  BY RestFields
<1>5. x \in X /\ y \in X /\ Y = (X \ {y, x}) \cup ({f} \cup {u} \cup RestOf(me, he))
  BY DEF CutFrom
<1>6. \A z \in Y : z.hole => (z \in X /\ z # x) \/ (z.b = hb /\ z.e = mb) \/ (z.b = me /\ z.e = he)
  BY <1>3, <1>4, <1>5
<1>7. \A z \in Y : ~ z.hole => z.b = mb \/ \E w \in X : ~ w.hole /\ w.b = z.b
  BY <1>2, <1>3, <1>4, <1>5
<1>8. \A w \in X : ~ w.hole => \E z \in Y : ~ z.hole /\ z.b = w.b /\ w.e <= z.e
  <2>1. \A w \in X : ~ w.hole => w \in Y \/ w = y
    BY <1>3, <1>5
  <2>2. \A w \in X : w.e <= w.e
    BY DEF Apart
  <2>3. y.e <= f.e /\ f \in Y
    BY <1>2, <1>5 DEF CutFrom
  <2>4. QED
    BY <1>2, <1>3, <2>1, <2>2, <2>3
<1>9. QED
  BY <1>6, <1>7, <1>8, CutIsCarved

LEMMA IndexOfRest ==
  ASSUME NEW me, NEW he
  PROVE  HolesOf(RestOf(me, he)) = (IF me < he THEN {<<he - me, me>>} ELSE {}) /\ HunksOf(RestOf(me, he)) = {}
<1>1. CASE me < he
  <2>1. RestOf(me, he) = {Piece(me, he, TRUE)}
    BY <1>1, Zenon DEF RestOf
  <2>2. HolesOf(RestOf(me, he)) = {<<he - me, me>>} /\ HunksOf(RestOf(me, he)) = {}
    BY <2>1, IndexOfPieces
  <2>3. QED
    BY <1>1, <2>2, Zenon
<1>2. CASE ~ (me < he)
  <2>1. RestOf(me, he) = {}
    BY <1>2, Zenon DEF RestOf
  <2>2. HolesOf(RestOf(me, he)) = {} /\ HunksOf(RestOf(me, he)) = {}
    BY <2>1, IndexOfPieces
  <2>3. QED
    BY <1>2, <2>2, Zenon
<1>3. QED
  BY <1>1, <1>2

Joint(W, P, Q, S) == W = P \cup Q \cup S
LEMMA IndexOfUnion ==
  ASSUME NEW W, NEW P, NEW Q, NEW S, Joint(W, P, Q, S)
  PROVE  Joint(HolesOf(W), HolesOf(P), HolesOf(Q), HolesOf(S)) /\ Joint(HunksOf(W), HunksOf(P), HunksOf(Q), HunksOf(S))
<1>1. Joint(HolesOf(W), HolesOf(P), HolesOf(Q), HolesOf(S))
  BY DEF HolesOf, Joint
<1>2. Joint(HunksOf(W), HunksOf(P), HunksOf(Q), HunksOf(S))
  BY DEF HunksOf, Joint
<1>3. QED
  BY <1>1, <1>2

LEMMA IndexOfPiece ==
  ASSUME NEW x, NEW b, NEW e
  PROVE  /\ HoleAt(x, b, e) => HolesOf({x}) = {<<e - b, b>>} /\ HunksOf({x}) = {}
         /\ HunkAt(x, b, e) => HolesOf({x}) = {} /\ HunksOf({x}) = {b}
BY IndexOfPieces DEF HoleAt, HunkAt

\* The hunk from mb to me is cut out of the hole at i, from hb to he, for the user's a: k
\* is its block, r what follows it.
Cutting(B, n, E, ho, hu, H, base, i, hb, mb, me, he, a, k, r, q) ==
  /\ Half(B, E, ho, hu, H, base) /\ HolesApart(Extents(B, E))
  /\ Blocks(B, n) /\ i \in 1 .. n /\ B[i].b = hb /\ B[i].hole = TRUE /\ NextOf(B, E, i) = he
  /\ hb \in Nat /\ mb \in Nat /\ me \in Nat /\ he \in Nat /\ hb <= mb /\ mb < me /\ me <= he
  /\ Blocks(k, 1) /\ k[1] = [b |-> mb, hole |-> FALSE] /\ Rest(r, q, me, he) /\ Blocks(r, q)
  /\ a \in Held /\ a.b = mb /\ a.b + a.size = me /\ (base + a.b) % a.align = 0

CutDone(B, C, E, X, Y, R, N, ho, ho2, hb, mb, me, he, u) ==
  /\ HunkAt(u, mb, me) /\ Replaced(B, C, E, X, Y, R, N \cup {u} \cup RestOf(me, he))
  /\ Carved(X, Y, hb, mb, me, he)
  /\ (HunksOf(X) \ HunksOf(R)) \cup HunksOf(N) = HunksOf(X)
  /\ ho2 = (ho \ HolesOf(R)) \cup HolesOf(N) \cup HolesOf(RestOf(me, he))

LEMMA CutFinishes ==
  ASSUME NEW B, NEW n, NEW E, NEW ho, NEW hu, NEW H, NEW base, NEW i, NEW hb, NEW mb, NEW me, NEW he, NEW a,
         NEW k, NEW r, NEW q, Cutting(B, n, E, ho, hu, H, base, i, hb, mb, me, he, a, k, r, q),
         NEW C, NEW X, NEW Y, NEW R, NEW N, NEW u, NEW ho2, CutDone(B, C, E, X, Y, R, N, ho, ho2, hb, mb, me, he, u)
  PROVE  Half(C, E, ho2, hu \cup {mb}, H \cup {a}, base) /\ HolesApart(Extents(C, E))
<1>1. /\ B[1].b = 0 /\ ho = HolesOf(Extents(B, E)) /\ hu = HunksOf(Extents(B, E))
      /\ HeldIn(Extents(B, E), H, base) /\ HolesApart(Extents(B, E))
  BY DEF Cutting, Half
<1>2. Ascends(C, E) /\ C[1].b = B[1].b /\ X = Extents(B, E) /\ Y = Extents(C, E) /\ Apart(X, E) /\ Apart(Y, E)
  BY DEF CutDone, Replaced
<1>3. PICK W : W = N \cup {u} \cup RestOf(me, he)
  OBVIOUS
<1>4. HolesOf(Y) = (HolesOf(X) \ HolesOf(R)) \cup HolesOf(W) /\ HunksOf(Y) = (HunksOf(X) \ HunksOf(R)) \cup HunksOf(W)
  BY <1>3 DEF CutDone, Replaced, Follow
<1>5. /\ HolesOf(W) = HolesOf(N) \cup HolesOf({u}) \cup HolesOf(RestOf(me, he))
      /\ HunksOf(W) = HunksOf(N) \cup HunksOf({u}) \cup HunksOf(RestOf(me, he))
  <2>1. PICK P : P = {u}
    OBVIOUS
  <2>2. PICK S : S = RestOf(me, he)
    OBVIOUS
  <2>3. Joint(W, N, P, S)
    BY <1>3, <2>1, <2>2 DEF Joint
  <2>4. Joint(HolesOf(W), HolesOf(N), HolesOf(P), HolesOf(S)) /\ Joint(HunksOf(W), HunksOf(N), HunksOf(P), HunksOf(S))
    BY <2>3, IndexOfUnion
  <2>5. QED
    BY <2>1, <2>2, <2>4 DEF Joint
<1>6. HolesOf({u}) = {} /\ HunksOf({u}) = {mb} /\ HunksOf(RestOf(me, he)) = {}
  <2>1. HunkAt(u, mb, me)
    BY DEF CutDone
  <2>2. QED
    BY <2>1, IndexOfPiece, IndexOfRest
<1>7. ho2 = HolesOf(Y)
  BY <1>1, <1>2, <1>4, <1>5, <1>6 DEF CutDone
<1>8. hu \cup {mb} = HunksOf(Y)
  BY <1>1, <1>2, <1>4, <1>5, <1>6 DEF CutDone
<1>9. HolesApart(Y)
  BY <1>1, <1>2, CarveKeepsHolesApart DEF CutDone
<1>10. HeldIn(Y, H \cup {a}, base)
  <2>1. a \in Held /\ a.b = mb /\ a.b + a.size = me /\ (base + a.b) % a.align = 0
    BY DEF Cutting
  <2>2. HeldIn(X, H, base)
    BY <1>1, <1>2
  <2>3. QED
    BY <1>2, <2>1, <2>2, CarveKeepsHeld DEF CutDone
<1>11. QED
  BY <1>1, <1>2, <1>7, <1>8, <1>9, <1>10 DEF Half

\* What a cut starts from.
CutStart(B, n, E, X, x, i, hb, he) ==
  /\ Ascends(B, E) /\ n \in Nat /\ DOMAIN B = 1 .. n /\ Apart(X, E) /\ i \in 1 .. n
  /\ x = Ext(B, E, i) /\ x \in X /\ HolesOf({x}) = {<<he - hb, hb>>} /\ HunksOf({x}) = {}

LEMMA CutStarts ==
  ASSUME NEW B, NEW n, NEW E, NEW ho, NEW hu, NEW H, NEW base, NEW i, NEW hb, NEW mb, NEW me, NEW he, NEW a,
         NEW k, NEW r, NEW q, Cutting(B, n, E, ho, hu, H, base, i, hb, mb, me, he, a, k, r, q),
         NEW X, X = Extents(B, E), NEW x, HoleAt(x, hb, he)
  PROVE  CutStart(B, n, E, X, x, i, hb, he)
<1>1. Ascends(B, E) /\ Blocks(B, n) /\ i \in 1 .. n
  BY DEF Cutting, Half
<1>2. n \in Nat /\ DOMAIN B = 1 .. n
  BY <1>1, TypeOfBlocks
<1>3. Apart(X, E)
  BY <1>1, ExtentFacts
<1>4. x = Ext(B, E, i)
  BY DEF Cutting, Ext, Piece, HoleAt
<1>5. x \in X
  BY <1>1, <1>2, <1>4 DEF Extents
<1>6. HolesOf({x}) = {<<he - hb, hb>>} /\ HunksOf({x}) = {}
  BY IndexOfPiece
<1>7. QED
  BY <1>1, <1>2, <1>3, <1>4, <1>5, <1>6 DEF CutStart

\* What is in front of the hunk stays a hole.
Keeping(B, n, C, i, l, k, r, q, ho, ho2, hb, mb, me, he) ==
  /\ hb < mb /\ l[1] = B[i] /\ CarvedList(B, n, C, i, l, 1, k, r, q)
  /\ ho2 = (ho \ {<<he - hb, hb>>}) \cup {<<mb - hb, hb>>} \cup HolesOf(RestOf(me, he))

LEMMA CutKeeping ==
  ASSUME NEW B, NEW n, NEW E, NEW ho, NEW hu, NEW H, NEW base, NEW i, NEW hb, NEW mb, NEW me, NEW he, NEW a,
         NEW k, NEW r, NEW q, Cutting(B, n, E, ho, hu, H, base, i, hb, mb, me, he, a, k, r, q),
         NEW C, NEW l, NEW ho2, Keeping(B, n, C, i, l, k, r, q, ho, ho2, hb, mb, me, he)
  PROVE  Half(C, E, ho2, hu \cup {mb}, H \cup {a}, base) /\ HolesApart(Extents(C, E))
<1>1. PICK x : HoleAt(x, hb, he)
  BY DEF HoleAt
<1>2. PICK u : HunkAt(u, mb, me)
  BY DEF HunkAt
<1>3. PICK f : HoleAt(f, hb, mb)
  BY DEF HoleAt
<1>4. PICK X : X = Extents(B, E)
  OBVIOUS
<1>5. PICK Y : Y = Extents(C, E)
  OBVIOUS
<1>6. CutStart(B, n, E, X, x, i, hb, he)
  BY <1>1, <1>4, CutStarts
<1>7. /\ B[i].b = hb /\ NextOf(B, E, i) = he
      /\ hb \in Nat /\ mb \in Nat /\ me \in Nat /\ he \in Nat /\ hb <= mb /\ mb < me /\ me <= he
  BY DEF Cutting
<1>8. B[i].hole = TRUE /\ k[1] = [b |-> mb, hole |-> FALSE] /\ Rest(r, q, me, he)
  BY DEF Cutting
<1>9. q \in Nat
  BY DEF Cutting, Blocks
<1>10. PICK M, m : CarvedRun(B, n, C, i, l, 1, k, r, q, M, m)
  BY CarveList DEF Keeping
<1>11. BlockThen(M, r, q, hb, mb, me, he)
  <2>1. Blocks(M, 2 + q) /\ M[1] = l[1] /\ M[2] = k[1] /\ \A z \in 1 .. q : M[2 + z] = r[z]
    BY <1>9, <1>10 DEF CarvedRun
  <2>2. hb < mb /\ M[1] = B[i] /\ M[1].b = hb /\ M[2] = [b |-> mb, hole |-> FALSE]
    BY <1>7, <1>8, <2>1 DEF Keeping
  <2>3. QED
    BY <1>7, <1>8, <2>1, <2>2 DEF BlockThen
<1>12. M[1].b = hb /\ M[1].hole = TRUE
  <2>1. M[1] = B[i]
    BY <1>9, <1>10 DEF CarvedRun, Keeping
  <2>2. QED
    BY <1>7, <1>8, <2>1
<1>13. Ascends(M, he) /\ Extents(M, he) = {Piece(hb, mb, M[1].hole)} \cup {Piece(mb, me, FALSE)} \cup RestOf(me, he)
  <2>1. BlockHunkRest(M, hb, mb, me, he)
    BY <1>11, BlockHunkAndRest
  <2>2. QED
    BY <2>1 DEF BlockHunkRest
<1>14. Extents(M, he) = {f} \cup {u} \cup RestOf(me, he)
  <2>1. f = Piece(hb, mb, M[1].hole)
    BY <1>3, <1>12 DEF HoleAt
  <2>2. u = Piece(mb, me, FALSE)
    BY <1>2 DEF HunkAt
  <2>3. QED
    BY <1>13, <2>1, <2>2
<1>15. \A z : z \in {x} <=> \E y \in i .. i : z = Ext(B, E, y)
  <2>1. i .. i = {i} /\ x = Ext(B, E, i)
    BY <1>6 DEF CutStart
  <2>2. QED
    BY <2>1
<1>16. Replaced(B, C, E, X, Y, {x}, {f} \cup {u} \cup RestOf(me, he))
  <2>1. PICK N : N = Extents(M, he)
    OBVIOUS
  <2>2. he = NextOf(B, E, i) /\ M[1].b = B[i].b
    BY <1>7, <1>12
  <2>3. RunReplaced(B, C, i, i, M, n, m, m - 1, E, he, X, Y, {x}, N)
    BY <1>4, <1>5, <1>6, <1>10, <1>13, <1>15, <2>1, <2>2 DEF RunReplaced, CutStart, CarvedRun
  <2>4. Replaced(B, C, E, X, Y, {x}, N)
    BY <2>3, SpliceReplaces
  <2>5. QED
    BY <1>14, <2>1, <2>4
<1>17. CutFrom(X, Y, hb, mb, me, he, x, u, {x}, {f})
  <2>1. Y = (X \ {x}) \cup ({f} \cup {u} \cup RestOf(me, he)) /\ {x} \subseteq X
    BY <1>16 DEF Replaced
  <2>2. QED
    BY <1>1, <1>2, <1>7, <2>1 DEF CutFrom
<1>18. Carved(X, Y, hb, mb, me, he)
  <2>1. Apart(X, E)
    BY <1>6 DEF CutStart
  <2>2. QED
    BY <1>3, <1>17, <2>1, CarveKeeping
<1>19. HolesOf({f}) = {<<mb - hb, hb>>} /\ HunksOf({f}) = {}
  BY <1>3, IndexOfPiece
<1>20. (HunksOf(X) \ HunksOf({x})) \cup HunksOf({f}) = HunksOf(X)
  BY <1>6, <1>19 DEF CutStart
<1>21. ho2 = (ho \ HolesOf({x})) \cup HolesOf({f}) \cup HolesOf(RestOf(me, he))
  BY <1>6, <1>19 DEF CutStart, Keeping
<1>22. CutDone(B, C, E, X, Y, {x}, {f}, ho, ho2, hb, mb, me, he, u)
  BY <1>2, <1>16, <1>18, <1>20, <1>21 DEF CutDone
<1>23. QED
  BY <1>22, CutFinishes

\* There is nothing in front of the hunk.
Flush(B, n, C, i, l, k, r, q, ho, ho2, hb, mb, me, he) ==
  /\ hb = mb /\ CarvedList(B, n, C, i, l, 0, k, r, q)
  /\ ho2 = (ho \ {<<he - hb, hb>>}) \cup HolesOf(RestOf(me, he))

LEMMA CutFlush ==
  ASSUME NEW B, NEW n, NEW E, NEW ho, NEW hu, NEW H, NEW base, NEW i, NEW hb, NEW mb, NEW me, NEW he, NEW a,
         NEW k, NEW r, NEW q, Cutting(B, n, E, ho, hu, H, base, i, hb, mb, me, he, a, k, r, q),
         NEW C, NEW l, NEW ho2, Flush(B, n, C, i, l, k, r, q, ho, ho2, hb, mb, me, he)
  PROVE  Half(C, E, ho2, hu \cup {mb}, H \cup {a}, base) /\ HolesApart(Extents(C, E))
<1>1. PICK x : HoleAt(x, hb, he)
  BY DEF HoleAt
<1>2. PICK u : HunkAt(u, mb, me)
  BY DEF HunkAt
<1>4. PICK X : X = Extents(B, E)
  OBVIOUS
<1>5. PICK Y : Y = Extents(C, E)
  OBVIOUS
<1>6. CutStart(B, n, E, X, x, i, hb, he)
  BY <1>1, <1>4, CutStarts
<1>7. /\ B[i].b = hb /\ NextOf(B, E, i) = he
      /\ hb \in Nat /\ mb \in Nat /\ me \in Nat /\ he \in Nat /\ hb <= mb /\ mb < me /\ me <= he
  BY DEF Cutting
<1>8. k[1] = [b |-> mb, hole |-> FALSE] /\ Rest(r, q, me, he)
  BY DEF Cutting
<1>9. q \in Nat
  BY DEF Cutting, Blocks
<1>10. PICK M, m : CarvedRun(B, n, C, i, l, 0, k, r, q, M, m)
  BY CarveList DEF Flush
<1>11. HunkThen(M, r, q, mb, me, he)
  <2>1. Blocks(M, 1 + q) /\ M[1] = k[1] /\ \A z \in 1 .. q : M[1 + z] = r[z]
    BY <1>9, <1>10 DEF CarvedRun
  <2>2. QED
    BY <1>7, <1>8, <2>1 DEF HunkThen
<1>12. M[1].b = hb
  <2>1. M[1] = [b |-> mb, hole |-> FALSE]
    BY <1>11 DEF HunkThen
  <2>2. QED
    BY <2>1 DEF Flush
<1>13. Ascends(M, he) /\ Extents(M, he) = {Piece(mb, me, FALSE)} \cup RestOf(me, he)
  <2>1. HunkRest(M, mb, me, he)
    BY <1>11, HunkAndRest
  <2>2. QED
    BY <2>1 DEF HunkRest
<1>14. Extents(M, he) = {} \cup {u} \cup RestOf(me, he)
  <2>1. u = Piece(mb, me, FALSE)
    BY <1>2 DEF HunkAt
  <2>2. QED
    BY <1>13, <2>1
<1>15. \A z : z \in {x} <=> \E y \in i .. i : z = Ext(B, E, y)
  <2>1. i .. i = {i} /\ x = Ext(B, E, i)
    BY <1>6 DEF CutStart
  <2>2. QED
    BY <2>1
<1>16. Replaced(B, C, E, X, Y, {x}, {} \cup {u} \cup RestOf(me, he))
  <2>1. PICK N : N = Extents(M, he)
    OBVIOUS
  <2>2. he = NextOf(B, E, i) /\ M[1].b = B[i].b
    BY <1>7, <1>12
  <2>3. RunReplaced(B, C, i, i, M, n, m, m - 1, E, he, X, Y, {x}, N)
    BY <1>4, <1>5, <1>6, <1>10, <1>13, <1>15, <2>1, <2>2 DEF RunReplaced, CutStart, CarvedRun
  <2>4. Replaced(B, C, E, X, Y, {x}, N)
    BY <2>3, SpliceReplaces
  <2>5. QED
    BY <1>14, <2>1, <2>4
<1>17. CutFrom(X, Y, hb, mb, me, he, x, u, {x}, {})
  <2>1. Y = (X \ {x}) \cup ({} \cup {u} \cup RestOf(me, he)) /\ {x} \subseteq X
    BY <1>16 DEF Replaced
  <2>2. QED
    BY <1>1, <1>2, <1>7, <2>1 DEF CutFrom
<1>18. Carved(X, Y, hb, mb, me, he)
  <2>1. Apart(X, E)
    BY <1>6 DEF CutStart
  <2>2. QED
    BY <1>17, <2>1, CarveFlush
<1>19. HolesOf({}) = {} /\ HunksOf({}) = {}
  BY DEF HolesOf, HunksOf
<1>20. (HunksOf(X) \ HunksOf({x})) \cup HunksOf({}) = HunksOf(X)
  BY <1>6, <1>19 DEF CutStart
<1>21. ho2 = (ho \ HolesOf({x})) \cup HolesOf({}) \cup HolesOf(RestOf(me, he))
  BY <1>6, <1>19 DEF CutStart, Flush
<1>22. CutDone(B, C, E, X, Y, {x}, {}, ho, ho2, hb, mb, me, he, u)
  BY <1>2, <1>16, <1>18, <1>20, <1>21 DEF CutDone
<1>23. QED
  BY <1>22, CutFinishes

\* The hunk on the left grows over what is in front of the new one.
Absorbing(B, n, C, i, l, k, r, q, ho, ho2, hb, mb, me, he) ==
  /\ hb < mb /\ i > 1 /\ CarvedList(B, n, C, i, l, 0, k, r, q)
  /\ ho2 = (ho \ {<<he - hb, hb>>}) \cup HolesOf(RestOf(me, he))

\* The blocks M with the block on their left in front.
LEMMA LeftAndRun ==
  ASSUME NEW B, NEW n, NEW C, NEW i, NEW l, NEW k, NEW r, NEW q, NEW M, NEW m,
         Blocks(B, n) /\ i \in 1 .. n /\ i > 1 /\ CarvedRun(B, n, C, i, l, 0, k, r, q, M, m) /\ q \in Nat
  PROVE  \E W : /\ Spliced(B, C, i - 1, i, W, n, m + 1, m - 1) /\ Blocks(W, 2 + q) /\ W[1] = B[i - 1]
                /\ W[2] = k[1] /\ \A x \in 1 .. q : W[2 + x] = r[x]
<1>1. PICK t : Blocks(t, 1) /\ t[1] = B[i - 1]
  <2>1. i - 1 \in 1 .. n
    BY TypeOfBlocks
  <2>2. B[i - 1] \in Block
    BY <2>1, TypeOfBlocks
  <2>3. QED
    BY <2>2, SingleBlock
<1>2. Blocks(M, m) /\ m = 1 + q /\ m \in Nat
  BY DEF CarvedRun
<1>3. PICK W : W = t \o M
  OBVIOUS
<1>4. Joined(W, t, 1, M, m)
  BY <1>1, <1>2, <1>3, ConcatBlocks
<1>5. /\ Blocks(W, m + 1) /\ Blocks(W, 2 + q) /\ W[1] = t[1] /\ \A x \in 1 .. m : W[1 + x] = M[x]
  BY <1>2, <1>4 DEF Joined
<1>6. Spliced(B, C, i - 1, i, W, n, m + 1, m - 1)
  <2>1. Spliced(B, C, i, i, M, n, m, m - 1)
    BY DEF CarvedRun
  <2>2. W[1] = B[i - 1] /\ \A x \in 1 .. m : W[x + 1] = M[x]
    BY <1>1, <1>2, <1>5
  <2>3. QED
    BY <1>5, <2>1, <2>2, SpliceWider
<1>7. W[2] = k[1]
  BY <1>2, <1>5 DEF CarvedRun
<1>8. \A x \in 1 .. q : W[2 + x] = r[x]
  <2>1. \A x \in 1 .. q : M[1 + x] = r[x]
    BY DEF CarvedRun
  <2>2. ASSUME NEW x \in 1 .. q
        PROVE  W[2 + x] = r[x]
    <3>1. 1 + x \in 1 .. m /\ 1 + (1 + x) = 2 + x
      BY <1>2
    <3>2. QED
      BY <1>5, <2>1, <3>1
  <2>3. QED
    BY <2>2
<1>9. QED
  BY <1>1, <1>5, <1>6, <1>7, <1>8

\* The block on the left of a hole is a hunk.
LEMMA LeftIsHunk ==
  ASSUME NEW B, NEW E, NEW i, Ascends(B, E) /\ i \in DOMAIN B /\ i > 1, HolesApart(Extents(B, E)), B[i].hole = TRUE
  PROVE  i - 1 \in DOMAIN B /\ B[i - 1].hole = FALSE /\ NextOf(B, E, i - 1) = B[i].b
<1>1. i - 1 \in DOMAIN B /\ NextOf(B, E, i - 1) = B[i].b
  BY Neighbours
<1>2. PICK g : g = i - 1
  OBVIOUS
<1>3. B[g].hole \in BOOLEAN
  BY <1>1, <1>2, ExtentFacts
<1>4. Ext(B, E, g) \in Extents(B, E) /\ Ext(B, E, i) \in Extents(B, E)
  BY <1>1, <1>2 DEF Extents
<1>5. Ext(B, E, g).e = Ext(B, E, i).b
  BY <1>1, <1>2 DEF Ext
<1>6. ~ (Ext(B, E, g).hole /\ Ext(B, E, i).hole)
  BY <1>4, <1>5 DEF HolesApart
<1>7. ~ B[g].hole
  BY <1>6 DEF Ext
<1>8. QED
  BY <1>1, <1>2, <1>3, <1>7

LEMMA CutAbsorbing ==
  ASSUME NEW B, NEW n, NEW E, NEW ho, NEW hu, NEW H, NEW base, NEW i, NEW hb, NEW mb, NEW me, NEW he, NEW a,
         NEW k, NEW r, NEW q, Cutting(B, n, E, ho, hu, H, base, i, hb, mb, me, he, a, k, r, q),
         NEW C, NEW l, NEW ho2, Absorbing(B, n, C, i, l, k, r, q, ho, ho2, hb, mb, me, he)
  PROVE  Half(C, E, ho2, hu \cup {mb}, H \cup {a}, base) /\ HolesApart(Extents(C, E))
<1>1. PICK x : HoleAt(x, hb, he)
  BY DEF HoleAt
<1>2. PICK u : HunkAt(u, mb, me)
  BY DEF HunkAt
<1>4. PICK X : X = Extents(B, E)
  OBVIOUS
<1>5. PICK Y : Y = Extents(C, E)
  OBVIOUS
<1>6. CutStart(B, n, E, X, x, i, hb, he)
  BY <1>1, <1>4, CutStarts
<1>7. /\ B[i].b = hb /\ NextOf(B, E, i) = he
      /\ hb \in Nat /\ mb \in Nat /\ me \in Nat /\ he \in Nat /\ hb <= mb /\ mb < me /\ me <= he
  BY DEF Cutting
<1>8. k[1] = [b |-> mb, hole |-> FALSE] /\ Rest(r, q, me, he)
  BY DEF Cutting
<1>9. q \in Nat /\ Blocks(B, n) /\ i \in 1 .. n /\ i > 1 /\ hb < mb
  BY DEF Cutting, Blocks, Absorbing
<1>10. PICK M, m : CarvedRun(B, n, C, i, l, 0, k, r, q, M, m)
  BY CarveList DEF Absorbing
<1>11. PICK W : /\ Spliced(B, C, i - 1, i, W, n, m + 1, m - 1) /\ Blocks(W, 2 + q) /\ W[1] = B[i - 1]
                /\ W[2] = k[1] /\ \A z \in 1 .. q : W[2 + z] = r[z]
  BY <1>9, <1>10, LeftAndRun
<1>12. PICK g \in Nat : g = i - 1 /\ i = g + 1
  BY <1>9
<1>13. g \in DOMAIN B /\ B[g].hole = FALSE /\ NextOf(B, E, g) = hb
  <2>1. Ascends(B, E) /\ i \in DOMAIN B /\ i > 1
    BY <1>6, <1>9 DEF CutStart
  <2>2. HolesApart(Extents(B, E)) /\ B[i].hole = TRUE
    BY DEF Cutting
  <2>3. QED
    BY <1>7, <1>12, <2>1, <2>2, LeftIsHunk
<1>14. PICK b \in Nat : b = B[g].b /\ b < hb
  <2>1. B[g].b \in Nat /\ B[g].b < NextOf(B, E, g)
    BY <1>6, <1>13, ExtentFacts DEF CutStart
  <2>2. QED
    BY <1>13, <2>1
<1>15. PICK y : HunkAt(y, b, hb)
  BY DEF HunkAt
<1>16. PICK f : HunkAt(f, b, mb)
  BY DEF HunkAt
<1>17. y = Ext(B, E, g)
  BY <1>13, <1>14, <1>15 DEF HunkAt, Piece, Ext
<1>18. W[1].b = b /\ W[1].hole = FALSE
  BY <1>11, <1>12, <1>13, <1>14
<1>19. BlockThen(W, r, q, b, mb, me, he)
  <2>1. b < mb
    BY <1>7, <1>14
  <2>2. QED
    BY <1>7, <1>8, <1>11, <1>18, <2>1 DEF BlockThen
<1>20. Ascends(W, he) /\ Extents(W, he) = {f} \cup {u} \cup RestOf(me, he)
  <2>1. BlockHunkRest(W, b, mb, me, he)
    BY <1>19, BlockHunkAndRest
  <2>2. Ascends(W, he) /\ Extents(W, he) = {Piece(b, mb, W[1].hole)} \cup {Piece(mb, me, FALSE)} \cup RestOf(me, he)
    BY <2>1 DEF BlockHunkRest
  <2>3. f = Piece(b, mb, W[1].hole)
    BY <1>16, <1>18 DEF HunkAt
  <2>4. u = Piece(mb, me, FALSE)
    BY <1>2 DEF HunkAt
  <2>5. QED
    BY <2>2, <2>3, <2>4
<1>21. \A z : z \in {y, x} <=> \E j \in g .. i : z = Ext(B, E, j)
  <2>1. g .. i = {g, i} /\ x = Ext(B, E, i)
    BY <1>6, <1>12 DEF CutStart
  <2>2. QED
    BY <1>17, <2>1
<1>22. Replaced(B, C, E, X, Y, {y, x}, {f} \cup {u} \cup RestOf(me, he))
  <2>1. PICK N : N = Extents(W, he)
    OBVIOUS
  <2>2. he = NextOf(B, E, i) /\ W[1].b = B[g].b /\ Ascends(B, E)
    BY <1>6, <1>7, <1>14, <1>18 DEF CutStart
  <2>3. Spliced(B, C, g, i, W, n, m + 1, m - 1)
    BY <1>11, <1>12
  <2>4. RunReplaced(B, C, g, i, W, n, m + 1, m - 1, E, he, X, Y, {y, x}, N)
    BY <1>4, <1>5, <1>20, <1>21, <2>1, <2>2, <2>3 DEF RunReplaced
  <2>5. Replaced(B, C, E, X, Y, {y, x}, N)
    BY <2>4, SpliceReplaces
  <2>6. QED
    BY <1>20, <2>1, <2>5
<1>23. CutFrom(X, Y, hb, mb, me, he, x, u, {y, x}, {f})
  <2>1. Y = (X \ {y, x}) \cup ({f} \cup {u} \cup RestOf(me, he)) /\ {y, x} \subseteq X
    BY <1>22 DEF Replaced
  <2>2. QED
    BY <1>1, <1>2, <1>7, <2>1 DEF CutFrom
<1>24. Carved(X, Y, hb, mb, me, he)
  <2>1. Apart(X, E)
    BY <1>6 DEF CutStart
  <2>2. QED
    BY <1>15, <1>16, <1>23, <2>1, CarveAbsorbing
<1>25. HolesOf({y, x}) = {<<he - hb, hb>>} /\ HunksOf({y, x}) = {b} /\ HolesOf({f}) = {} /\ HunksOf({f}) = {b}
  <2>1. HolesOf({y}) = {} /\ HunksOf({y}) = {b} /\ HolesOf({f}) = {} /\ HunksOf({f}) = {b}
    BY <1>15, <1>16, IndexOfPiece
  <2>2. HolesOf({y, x}) = HolesOf({y}) \cup HolesOf({x}) /\ HunksOf({y, x}) = HunksOf({y}) \cup HunksOf({x})
    BY IndexOfPair
  <2>3. HolesOf({x}) = {<<he - hb, hb>>} /\ HunksOf({x}) = {}
    BY <1>6 DEF CutStart
  <2>4. QED
    BY <2>1, <2>2, <2>3
<1>26. (HunksOf(X) \ HunksOf({y, x})) \cup HunksOf({f}) = HunksOf(X)
  <2>1. y \in X
    BY <1>22 DEF Replaced
  <2>2. ~ y.hole /\ y.b = b
    BY <1>15, PieceFields
  <2>3. b \in HunksOf(X)
    BY <2>1, <2>2 DEF HunksOf
  <2>4. QED
    BY <1>25, <2>3
<1>27. ho2 = (ho \ HolesOf({y, x})) \cup HolesOf({f}) \cup HolesOf(RestOf(me, he))
  BY <1>25 DEF Absorbing
<1>28. CutDone(B, C, E, X, Y, {y, x}, {f}, ho, ho2, hb, mb, me, he, u)
  BY <1>2, <1>22, <1>24, <1>26, <1>27 DEF CutDone
<1>29. QED
  BY <1>28, CutFinishes

\* Where the hunk begins: in the hole, and aligned in memory.
LEMMA BeginFacts ==
  ASSUME NEW s, s.base \in Nat, NEW b \in Nat, NEW align \in Nat \ {0}, NEW mb, mb = MBegin(s, b, align)
  PROVE  mb \in Nat /\ b <= mb /\ (s.base + mb) % align = 0
<1>1. PICK p \in Nat : p = s.base + b
  OBVIOUS
<1>2. PICK u : u = Up(p, align)
  OBVIOUS
<1>3. u \in Nat /\ u >= p /\ u % align = 0
  BY <1>1, <1>2, UpFacts
<1>4. mb = u - s.base
  BY <1>1, <1>2 DEF MBegin
<1>5. mb \in Nat /\ b <= mb /\ s.base + mb = u
  BY <1>1, <1>3, <1>4
<1>6. QED
  BY <1>3, <1>5

LEMMA NoBlock == Blocks(<<>>, 0)
BY EmptySeq DEF Blocks

LEMMA ABlock ==
  ASSUME NEW x \in Block
  PROVE  Blocks(<<x>>, 1) /\ <<x>>[1] = x
<1>1. <<x>> \in Seq(Block) /\ Len(<<x>>) = 1 /\ <<x>>[1] = x
  OBVIOUS
<1>2. QED
  BY <1>1 DEF Blocks

\* What follows the hunk, as Carve has it.
RightOf(me, he) == IF me < he THEN <<[b |-> me, hole |-> TRUE]>> ELSE <<>>

LEMMA RightIsRest ==
  ASSUME NEW me \in Nat, NEW he \in Nat, me <= he, NEW r, r = RightOf(me, he)
  PROVE  \E q \in Nat : Rest(r, q, me, he) /\ Blocks(r, q)
<1>1. CASE me < he
  <2>1. PICK x : x = [b |-> me, hole |-> TRUE]
    OBVIOUS
  <2>2. x \in Block
    BY <2>1 DEF Block
  <2>3. r = <<x>>
    BY <1>1, <2>1, Zenon DEF RightOf
  <2>4. Blocks(r, 1) /\ r[1] = x
    BY <2>2, <2>3, ABlock
  <2>5. QED
    BY <1>1, <2>1, <2>4 DEF Rest
<1>2. CASE ~ (me < he)
  <2>1. r = <<>>
    BY <1>2, Zenon DEF RightOf
  <2>2. me = he /\ Blocks(r, 0)
    BY <1>2, <2>1, NoBlock
  <2>3. QED
    BY <2>2 DEF Rest
<1>3. QED
  BY <1>1, <1>2

\* What Carve makes of the segment: kept says whether the gap stays a hole.
LeftOf(B, i, kept) == IF kept THEN <<B[i]>> ELSE <<>>
GapOf(hb, mb, kept) == IF kept THEN {<<mb - hb, hb>>} ELSE {}
RestHole(me, he) == IF me < he THEN {<<he - me, me>>} ELSE {}
CarvedInto(B, ho, hu, h, i, hb, mb, me, he, kept, C, ho2) ==
  /\ C = SubSeq(B, 1, i - 1) \o LeftOf(B, i, kept) \o <<[b |-> mb, hole |-> FALSE]>> \o RightOf(me, he)
           \o SubSeq(B, i + 1, Len(B))
  /\ ho2 = (ho \ {h}) \cup GapOf(hb, mb, kept) \cup RestHole(me, he)

LEMMA CarveIs ==
  ASSUME NEW s, NEW base, NEW E, NEW B, NEW ho, NEW hu, s = Segment(base, E, B, ho, hu),
         NEW h, NEW size, NEW align, NEW i, NEW hb, NEW mb, NEW me, NEW he, NEW kept, NEW C, NEW ho2,
         hb = h[2], i = At(s, h[2]), mb = MBegin(s, h[2], align), me = mb + size, he = EndOf(s, i),
         kept = (mb - hb > 0 /\ ~ Absorbed(s, i, mb - hb)),
         CarvedInto(B, ho, hu, h, i, hb, mb, me, he, kept, C, ho2)
  PROVE  Carve(s, h, size, align) = Segment(base, E, C, ho2, hu \cup {mb})
<1>1. s.blocks = B /\ s.holes = ho /\ s.hunks = hu
  BY DEF Segment
<1>2. Carve(s, h, size, align) = [s EXCEPT !.blocks = C, !.holes = ho2, !.hunks = hu \cup {mb}]
  BY <1>1 DEF Carve, CarvedInto, LeftOf, GapOf, RestHole, RightOf
<1>3. QED
  BY <1>2 DEF Segment

\* A request that fits the hole h of the segment s becomes the allocation a.
Request(s, H, h, size, align, a) ==
  /\ Sound(s, H) /\ h \in s.holes /\ size \in Nat \ {0} /\ align \in Nat \ {0} /\ FitsIn(s, h, size, align)
  /\ a = [b |-> MBegin(s, h[2], align), size |-> size, align |-> align]

\* The hole h is the block i of the list, from hb to he; the hunk goes from mb to me.
Placed(s, h, B, ho, hu, i, size, align, hb, mb, me, he) ==
  /\ s = Segment(SegBase, SegSize, B, ho, hu) /\ i \in DOMAIN B /\ B[i].hole = TRUE /\ B[i].b = hb
  /\ NextOf(B, SegSize, i) = he /\ h = <<he - hb, hb>> /\ hb = h[2] /\ i = At(s, h[2]) /\ he = EndOf(s, i)
  /\ mb = MBegin(s, h[2], align) /\ me = mb + size
  /\ hb \in Nat /\ mb \in Nat /\ me \in Nat /\ he \in Nat /\ hb <= mb /\ mb < me /\ me <= he
  /\ (SegBase + mb) % align = 0

BlockOf(B, E, h, i, hb, he) ==
  /\ i \in DOMAIN B /\ hb \in Nat /\ he \in Nat
  /\ B[i].hole = TRUE /\ B[i].b = hb /\ NextOf(B, E, i) = he /\ hb < he /\ h = <<he - hb, hb>>

LEMMA HoleIsBlock ==
  ASSUME NEW B, NEW E, Ascends(B, E), NEW h \in HolesOf(Extents(B, E))
  PROVE  \E i, hb, he : BlockOf(B, E, h, i, hb, he)
<1>1. PICK x \in Extents(B, E) : x.hole /\ h = <<x.e - x.b, x.b>>
  BY DEF HolesOf
<1>2. PICK i \in DOMAIN B : x = Ext(B, E, i)
  BY <1>1 DEF Extents
<1>3. x.b = B[i].b /\ x.e = NextOf(B, E, i) /\ x.hole = B[i].hole
  BY <1>2 DEF Ext
<1>4. B[i].b \in Nat /\ NextOf(B, E, i) \in Nat /\ B[i].b < NextOf(B, E, i) /\ B[i].hole \in BOOLEAN
  BY ExtentFacts
<1>5. B[i].hole = TRUE
  BY <1>1, <1>3, <1>4
<1>6. PICK hb, he : hb = B[i].b /\ he = NextOf(B, E, i)
  OBVIOUS
<1>7. hb \in Nat /\ he \in Nat /\ hb < he
  BY <1>4, <1>6
<1>8. h = <<he - hb, hb>>
  BY <1>1, <1>3, <1>6
<1>9. BlockOf(B, E, h, i, hb, he)
  BY <1>5, <1>6, <1>7, <1>8 DEF BlockOf
<1>10. QED
  BY <1>9

LEMMA RequestPlaced ==
  ASSUME NEW s, NEW H, NEW h, NEW size, NEW align, NEW a, Request(s, H, h, size, align, a),
         NEW B, NEW ho, NEW hu, Whole(s, H, B, ho, hu)
  PROVE  \E i, hb, mb, me, he : Placed(s, h, B, ho, hu, i, size, align, hb, mb, me, he)
<1>1. s = Segment(SegBase, SegSize, B, ho, hu) /\ Ascends(B, SegSize) /\ ho = HolesOf(Extents(B, SegSize))
  BY DEF Whole, Half
<1>2. s.blocks = B /\ s.holes = ho /\ s.base = SegBase /\ SegBase \in Nat
  BY <1>1, SegAssumption DEF Segment
<1>3. PICK i, hb, he : BlockOf(B, SegSize, h, i, hb, he)
  BY <1>1, <1>2, HoleIsBlock DEF Request
<1>4. /\ i \in DOMAIN B /\ hb \in Nat /\ he \in Nat
      /\ B[i].hole = TRUE /\ B[i].b = hb /\ NextOf(B, SegSize, i) = he /\ hb < he /\ h = <<he - hb, hb>>
  BY <1>3 DEF BlockOf
<1>5. h[1] = he - hb /\ h[2] = hb
  BY <1>4
<1>6. size \in Nat /\ size # 0 /\ align \in Nat \ {0} /\ FitsIn(s, h, size, align)
  BY DEF Request
<1>7. PICK mb : mb = MBegin(s, hb, align)
  OBVIOUS
<1>8. mb \in Nat /\ hb <= mb /\ (SegBase + mb) % align = 0
  <2>1. s.base \in Nat /\ hb \in Nat
    BY <1>2, <1>4
  <2>2. mb \in Nat /\ hb <= mb /\ (s.base + mb) % align = 0
    BY <1>6, <1>7, <2>1, BeginFacts
  <2>3. QED
    BY <1>2, <2>2
<1>9. PICK me \in Nat : me = mb + size /\ mb < me
  BY <1>6, <1>8
<1>10. me <= he
  <2>1. mb + size <= hb + (he - hb)
    BY <1>5, <1>6, <1>7 DEF FitsIn
  <2>2. QED
    BY <1>4, <1>9, <2>1
<1>11. i = At(s, h[2])
  BY <1>1, <1>2, <1>4, <1>5, AtFinds
<1>12. he = EndOf(s, i)
  BY <1>1, <1>4, EndIsNext
<1>13. Placed(s, h, B, ho, hu, i, size, align, hb, mb, me, he)
  BY <1>1, <1>4, <1>5, <1>7, <1>8, <1>9, <1>10, <1>11, <1>12 DEF Placed
<1>14. QED
  BY <1>13

LEMMA PlacedCuts ==
  ASSUME NEW s, NEW H, NEW h, NEW size, NEW align, NEW a, Request(s, H, h, size, align, a),
         NEW B, NEW ho, NEW hu, Whole(s, H, B, ho, hu),
         NEW i, NEW hb, NEW mb, NEW me, NEW he, Placed(s, h, B, ho, hu, i, size, align, hb, mb, me, he),
         NEW n, n = Len(B), NEW k, k = <<[b |-> mb, hole |-> FALSE]>>, NEW r, r = RightOf(me, he)
  PROVE  \E q : Cutting(B, n, SegSize, ho, hu, H, SegBase, i, hb, mb, me, he, a, k, r, q)
<1>1. Half(B, SegSize, ho, hu, H, SegBase) /\ HolesApart(Extents(B, SegSize)) /\ Ascends(B, SegSize)
  BY DEF Whole, Half
<1>2. /\ i \in DOMAIN B /\ B[i].hole = TRUE /\ B[i].b = hb /\ NextOf(B, SegSize, i) = he
      /\ hb \in Nat /\ mb \in Nat /\ me \in Nat /\ he \in Nat /\ hb <= mb /\ mb < me /\ me <= he
      /\ (SegBase + mb) % align = 0 /\ mb = MBegin(s, h[2], align) /\ me = mb + size
  BY DEF Placed
<1>3. Blocks(B, n) /\ i \in 1 .. n
  BY <1>1, <1>2, ExtentFacts DEF Ascends, Blocks
<1>4. PICK x : x = [b |-> mb, hole |-> FALSE]
  OBVIOUS
<1>5. Blocks(k, 1) /\ k[1] = [b |-> mb, hole |-> FALSE]
  <2>1. x \in Block
    BY <1>2, <1>4 DEF Block
  <2>2. Blocks(<<x>>, 1) /\ <<x>>[1] = x
    BY <2>1, ABlock
  <2>3. QED
    BY <1>4, <2>2
<1>6. PICK q \in Nat : Rest(r, q, me, he) /\ Blocks(r, q)
  BY <1>2, RightIsRest
<1>7. a \in Held /\ a.b = mb /\ a.b + a.size = me /\ (SegBase + a.b) % a.align = 0
  <2>1. a = [b |-> mb, size |-> size, align |-> align] /\ size \in Nat /\ align \in Nat \ {0}
    BY <1>2 DEF Request
  <2>2. a.b = mb /\ a.size = size /\ a.align = align
    BY <2>1
  <2>3. a \in Held
    BY <1>2, <2>1 DEF Held
  <2>4. QED
    BY <1>2, <2>2, <2>3
<1>8. Cutting(B, n, SegSize, ho, hu, H, SegBase, i, hb, mb, me, he, a, k, r, q)
  BY <1>1, <1>2, <1>3, <1>5, <1>6, <1>7 DEF Cutting
<1>9. QED
  BY <1>8

LEMMA CarveKeepsSound ==
  ASSUME NEW s, NEW H, NEW h, NEW size, NEW align, NEW a, Request(s, H, h, size, align, a)
  PROVE  Sound(Carve(s, h, size, align), H \cup {a})
<1>1. PICK B, ho, hu : Whole(s, H, B, ho, hu)
  BY SoundIsWhole DEF Request
<1>2. PICK i, hb, mb, me, he : Placed(s, h, B, ho, hu, i, size, align, hb, mb, me, he)
  BY <1>1, RequestPlaced
<1>3. PICK n : n = Len(B)
  OBVIOUS
<1>4. PICK k : k = <<[b |-> mb, hole |-> FALSE]>>
  OBVIOUS
<1>5. PICK r : r = RightOf(me, he)
  OBVIOUS
<1>6. PICK q : Cutting(B, n, SegSize, ho, hu, H, SegBase, i, hb, mb, me, he, a, k, r, q)
  BY <1>1, <1>2, <1>3, <1>4, <1>5, PlacedCuts
<1>7. PICK kept : kept = (mb - hb > 0 /\ ~ Absorbed(s, i, mb - hb))
  OBVIOUS
<1>8. PICK C, ho2 : CarvedInto(B, ho, hu, h, i, hb, mb, me, he, kept, C, ho2)
  BY DEF CarvedInto
<1>9. Carve(s, h, size, align) = Segment(SegBase, SegSize, C, ho2, hu \cup {mb})
  <2>1. /\ s = Segment(SegBase, SegSize, B, ho, hu) /\ hb = h[2] /\ i = At(s, h[2])
        /\ mb = MBegin(s, h[2], align) /\ me = mb + size /\ he = EndOf(s, i)
    BY <1>2 DEF Placed
  <2>2. QED
    BY <1>7, <1>8, <2>1, CarveIs
<1>10. PICK l : l = LeftOf(B, i, kept)
  OBVIOUS
<1>11. C = SubSeq(B, 1, i - 1) \o l \o k \o r \o SubSeq(B, i + 1, n)
  BY <1>3, <1>4, <1>5, <1>8, <1>10 DEF CarvedInto
<1>12. ho2 = (ho \ {<<he - hb, hb>>}) \cup GapOf(hb, mb, kept) \cup HolesOf(RestOf(me, he))
  <2>1. h = <<he - hb, hb>>
    BY <1>2 DEF Placed
  <2>2. HolesOf(RestOf(me, he)) = RestHole(me, he)
    BY IndexOfRest DEF RestHole
  <2>3. QED
    BY <1>8, <2>1, <2>2 DEF CarvedInto
<1>13. Blocks(B, n) /\ i \in 1 .. n /\ Blocks(k, 1) /\ Blocks(r, q)
  BY <1>6 DEF Cutting
<1>14. hb \in Nat /\ mb \in Nat /\ hb <= mb
  BY <1>2 DEF Placed
<1>15. Half(C, SegSize, ho2, hu \cup {mb}, H \cup {a}, SegBase) /\ HolesApart(Extents(C, SegSize))
  <2>1. CASE kept
    <3>1. l = <<B[i]>> /\ GapOf(hb, mb, kept) = {<<mb - hb, hb>>}
      BY <1>10, <2>1, Zenon DEF LeftOf, GapOf
    <3>2. Blocks(l, 1) /\ l[1] = B[i]
      <4>1. B[i] \in Block
        BY <1>13, TypeOfBlocks
      <4>2. QED
        BY <3>1, <4>1, ABlock
    <3>3. hb < mb
      <4>1. mb - hb > 0
        BY <1>7, <2>1
      <4>2. QED
        BY <1>14, <4>1
    <3>4. CarvedList(B, n, C, i, l, 1, k, r, q)
      BY <1>11, <1>13, <3>2 DEF CarvedList
    <3>5. Keeping(B, n, C, i, l, k, r, q, ho, ho2, hb, mb, me, he)
      BY <1>12, <3>1, <3>2, <3>3, <3>4 DEF Keeping
    <3>6. QED
      BY <1>6, <3>5, CutKeeping
  <2>2. CASE ~ kept
    <3>1. l = <<>> /\ GapOf(hb, mb, kept) = {}
      BY <1>10, <2>2, Zenon DEF LeftOf, GapOf
    <3>2. CarvedList(B, n, C, i, l, 0, k, r, q)
      BY <1>11, <1>13, <3>1, NoBlock DEF CarvedList
    <3>3. ho2 = (ho \ {<<he - hb, hb>>}) \cup HolesOf(RestOf(me, he))
      BY <1>12, <3>1
    <3>4. CASE hb = mb
      <4>1. Flush(B, n, C, i, l, k, r, q, ho, ho2, hb, mb, me, he)
        BY <3>2, <3>3, <3>4 DEF Flush
      <4>2. QED
        BY <1>6, <4>1, CutFlush
    <3>5. CASE hb # mb
      <4>1. hb < mb /\ mb - hb > 0
        BY <1>14, <3>5
      <4>2. Absorbed(s, i, mb - hb)
        BY <1>7, <2>2, <4>1
      <4>3. i > 1
        BY <4>2 DEF Absorbed
      <4>4. Absorbing(B, n, C, i, l, k, r, q, ho, ho2, hb, mb, me, he)
        BY <3>2, <3>3, <4>1, <4>3 DEF Absorbing
      <4>5. QED
        BY <1>6, <4>4, CutAbsorbing
    <3>6. QED
      BY <3>4, <3>5
  <2>3. QED
    BY <2>1, <2>2
<1>16. Whole(Carve(s, h, size, align), H \cup {a}, C, ho2, hu \cup {mb})
  BY <1>9, <1>15 DEF Whole
<1>17. QED
  BY <1>16, SoundIsWhole
-----------------------------------------------------------------------------
(* The actions                                                             *)

\* A pair of naturals is its two parts.
Pair(h) == h = <<h[1], h[2]>> /\ h[1] \in Nat /\ h[2] \in Nat

LEMMA HolesArePairs ==
  ASSUME NEW s, NEW H, Sound(s, H)
  PROVE  \A h \in s.holes : Pair(h)
<1>1. SUFFICES ASSUME NEW h \in s.holes
               PROVE  Pair(h)
  OBVIOUS
<1>2. Ascends(s.blocks, SegSize) /\ s.holes = HolesOf(Extents(s.blocks, SegSize))
  BY DEF Sound
<1>3. PICK i, hb, he : BlockOf(s.blocks, SegSize, h, i, hb, he)
  BY <1>1, <1>2, HoleIsBlock
<1>4. hb \in Nat /\ he \in Nat /\ hb < he /\ h = <<he - hb, hb>>
  BY <1>3 DEF BlockOf
<1>5. h[1] = he - hb /\ h[2] = hb
  BY <1>4
<1>6. QED
  BY <1>4, <1>5 DEF Pair

\* There is one best fit.
LEMMA BestFitIsOne ==
  ASSUME NEW s, \A h \in s.holes : Pair(h), NEW size, NEW g \in LowerBound(s, size), NEW h \in LowerBound(s, size)
  PROVE  g = h
<1>1. g \in s.holes /\ h \in s.holes
  BY DEF LowerBound
<1>2. h[1] >= size /\ g[1] >= size
  BY DEF LowerBound
<1>3. (h[1] < g[1] \/ (h[1] = g[1] /\ h[2] <= g[2])) /\ (g[1] < h[1] \/ (g[1] = h[1] /\ g[2] <= h[2]))
  BY <1>1, <1>2 DEF LowerBound
<1>4. Pair(g) /\ Pair(h)
  BY <1>1
<1>5. g[1] = h[1] /\ g[2] = h[2]
  BY <1>3, <1>4 DEF Pair
<1>6. QED
  BY <1>4, <1>5 DEF Pair

LEMMA HoleFits ==
  ASSUME NEW s, \A h \in s.holes : Pair(h), NEW size, NEW align, NEW h \in HoleFor(s, size, align)
  PROVE  h \in s.holes /\ FitsIn(s, h, size, align)
<1>1. PICK tight : tight = LowerBound(s, size)
  OBVIOUS
<1>2. PICK roomy : roomy = LowerBound(s, size + align - 1)
  OBVIOUS
<1>3. tight \subseteq s.holes /\ roomy \subseteq s.holes
  BY <1>1, <1>2 DEF LowerBound
<1>4. CASE \E g \in tight : FitsIn(s, g, size, align)
  <2>1. PICK g \in tight : FitsIn(s, g, size, align)
    BY <1>4
  <2>2. h \in tight
    BY <1>1, <1>4, Zenon DEF HoleFor
  <2>3. g = h
    BY <1>1, <2>1, <2>2, BestFitIsOne
  <2>4. QED
    BY <1>3, <2>1, <2>2, <2>3
<1>5. CASE ~ \E g \in tight : FitsIn(s, g, size, align)
  <2>1. h \in IF align = 1 THEN {} ELSE {g \in roomy : FitsIn(s, g, size, align)}
    BY <1>1, <1>2, <1>5, Zenon DEF HoleFor
  <2>2. h \in {g \in roomy : FitsIn(s, g, size, align)}
    BY <2>1
  <2>3. QED
    BY <1>3, <2>2
<1>6. QED
  BY <1>4, <1>5

LEMMA RoundedUp ==
  ASSUME NEW size \in Nat \ {0}, NEW align \in Nat \ {0}, NEW r, r = RoundRequest(size, align)
  PROVE  r[1] \in Nat \ {0} /\ r[2] \in Nat \ {0}
<1>1. PICK p : p = Up(size, SegPage)
  OBVIOUS
<1>2. PICK l : l = Up(size, SegLine)
  OBVIOUS
<1>3. p \in Nat \ {0} /\ l \in Nat \ {0}
  <2>1. Up(size, 4096) \in Nat /\ Up(size, 4096) >= size
    BY UpFacts
  <2>2. Up(size, 64) \in Nat /\ Up(size, 64) >= size
    BY UpFacts
  <2>3. QED
    BY <1>1, <1>2, <2>1, <2>2 DEF SegPage, SegLine
<1>4. PICK ap : ap = MaxOf(SegPage, align)
  OBVIOUS
<1>5. PICK al : al = MaxOf(SegLine, align)
  OBVIOUS
<1>6. ap \in Nat \ {0} /\ al \in Nat \ {0}
  BY <1>4, <1>5 DEF MaxOf, SegPage, SegLine
<1>7. r = <<p, ap>> \/ r = <<l, al>> \/ r = <<size, align>>
  BY <1>1, <1>2, <1>4, <1>5 DEF RoundRequest
<1>8. QED
  BY <1>3, <1>6, <1>7

\* An allocator that is in use is told from one that is not.
LEMMA InUse ==
  ASSUME NEW s, NEW H, Sound(s, H)
  PROVE  s # NoSegment /\ s.base # 0 /\ s.endpost > 0
<1>1. s.base = SegBase /\ s.endpost = SegSize
  BY DEF Sound
<1>2. s.base # 0 /\ s.endpost > 0
  BY <1>1, SegAssumption
<1>3. QED
  BY <1>2 DEF NoSegment

LEMMA NewSegmentSound == Sound(NewSegment(SegBase, SegSize), {})
<1>1. PICK x : x = [b |-> 0, hole |-> TRUE]
  OBVIOUS
<1>2. PICK B : B = <<x>>
  OBVIOUS
<1>3. Blocks(B, 1) /\ B[1] = x
  <2>1. x \in Block
    BY <1>1 DEF Block
  <2>2. QED
    BY <1>2, <2>1, ABlock
<1>4. SegSize \in Nat /\ SegSize # 0 /\ 0 < SegSize
  BY SegAssumption
<1>5. B[1].b = 0 /\ B[1].hole = TRUE
  BY <1>1, <1>3
<1>6. Ascends(B, SegSize) /\ Extents(B, SegSize) = {Piece(0, SegSize, TRUE)}
  BY <1>3, <1>4, <1>5, OneBlock
<1>7. PICK p : HoleAt(p, 0, SegSize)
  BY DEF HoleAt
<1>8. PICK X : X = Extents(B, SegSize) /\ X = {p}
  BY <1>6, <1>7 DEF HoleAt
<1>9. HolesOf(X) = {<<SegSize, 0>>} /\ HunksOf(X) = {}
  <2>1. HolesOf({p}) = {<<SegSize - 0, 0>>} /\ HunksOf({p}) = {}
    BY <1>7, IndexOfPiece
  <2>2. SegSize - 0 = SegSize
    BY <1>4
  <2>3. QED
    BY <1>8, <2>1, <2>2
<1>10. p.b = 0 /\ p.e = SegSize /\ p.hole
  BY <1>7, PieceFields
<1>11. HolesApart(X)
  BY <1>4, <1>8, <1>10 DEF HolesApart
<1>12. HeldIn(X, {}, SegBase)
  <2>1. IsFiniteSet({})
    BY FS_EmptySet
  <2>2. QED
    BY <1>8, <1>10, <2>1 DEF HeldIn
<1>13. NewSegment(SegBase, SegSize) = Segment(SegBase, SegSize, B, {<<SegSize, 0>>}, {})
  BY <1>1, <1>2, <1>4 DEF NewSegment, Segment
<1>14. Whole(NewSegment(SegBase, SegSize), {}, B, {<<SegSize, 0>>}, {})
  BY <1>5, <1>6, <1>8, <1>9, <1>11, <1>12, <1>13 DEF Whole, Half
<1>15. QED
  BY <1>14, SoundIsWhole

\* Either of the two allocators has the segment.
LEMMA InitEstablishes == SegInit => SegInv
<1>1. SUFFICES ASSUME SegInit
               PROVE  SegInv
  OBVIOUS
<1>2. PICK s : s = NewSegment(SegBase, SegSize)
  OBVIOUS
<1>3. seg = [own |-> s, spare |-> NoSegment] /\ segHeld = {}
  BY <1>1, <1>2 DEF SegInit
<1>4. seg.own = s /\ seg.spare = NoSegment
  BY <1>3
<1>5. Sound(seg.own, segHeld)
  BY <1>2, <1>3, <1>4, NewSegmentSound
<1>6. QED
  BY <1>3, <1>4, <1>5 DEF SegInv

LEMMA AllocateKeeps ==
  ASSUME SegInv, NEW size \in Nat, NEW align \in Nat \ {0}, SegAllocate(size, align)
  PROVE  SegInv'
<1>1. PICK r : r = RoundRequest(size, align)
  OBVIOUS
<1>2. size \in Nat \ {0}
  BY DEF SegAllocate
<1>3. PICK h \in HoleFor(seg.own, r[1], r[2]) :
        /\ seg' = [seg EXCEPT !.own = Carve(@, h, r[1], r[2])]
        /\ segHeld' = segHeld \cup {[b |-> MBegin(seg.own, h[2], r[2]), size |-> r[1], align |-> r[2]]}
  BY <1>1 DEF SegAllocate
<1>4. r[1] \in Nat \ {0} /\ r[2] \in Nat \ {0}
  BY <1>1, <1>2, RoundedUp
<1>5. PICK size1, align1 : size1 = r[1] /\ align1 = r[2]
  OBVIOUS
<1>6. PICK s, t : s = seg.own /\ t = seg.spare
  OBVIOUS
<1>7. h \in HoleFor(s, size1, align1)
  BY <1>3, <1>5, <1>6
<1>8. s # NoSegment
  <2>1. SUFFICES ASSUME s = NoSegment
                 PROVE  FALSE
    OBVIOUS
  <2>2. s.holes = {}
    BY <2>1 DEF NoSegment
  <2>3. h \in s.holes
    BY <1>7, <2>2, HoleFits
  <2>4. QED
    BY <2>2, <2>3
<1>9. Sound(s, segHeld) /\ t = NoSegment /\ seg = [own |-> s, spare |-> t]
  BY <1>6, <1>8 DEF SegInv
<1>10. h \in s.holes /\ FitsIn(s, h, size1, align1)
  BY <1>7, <1>9, HolesArePairs, HoleFits
<1>11. PICK a : a = [b |-> MBegin(s, h[2], align1), size |-> size1, align |-> align1]
  OBVIOUS
<1>12. Request(s, segHeld, h, size1, align1, a)
  BY <1>4, <1>5, <1>9, <1>10, <1>11 DEF Request
<1>13. PICK c : c = Carve(s, h, size1, align1)
  OBVIOUS
<1>14. Sound(c, segHeld \cup {a})
  BY <1>12, <1>13, CarveKeepsSound
<1>15. segHeld' = segHeld \cup {a}
  BY <1>3, <1>5, <1>6, <1>11
<1>16. seg' = [own |-> c, spare |-> NoSegment]
  <2>1. seg' = [seg EXCEPT !.own = c]
    BY <1>3, <1>5, <1>6, <1>13
  <2>2. QED
    BY <1>9, <2>1
<1>17. seg'.own = c /\ seg'.spare = NoSegment /\ seg' = [own |-> seg'.own, spare |-> seg'.spare]
  BY <1>16
<1>18. Sound(seg'.own, segHeld')
  BY <1>14, <1>15, <1>17
<1>19. QED
  BY <1>17, <1>18 DEF SegInv

LEMMA DeallocateKeeps ==
  ASSUME SegInv, NEW a \in segHeld, SegDeallocate(a)
  PROVE  SegInv'
<1>1. PICK s, t : s = seg.own /\ t = seg.spare
  OBVIOUS
<1>2. PICK s1 : s1 = [s EXCEPT !.hunks = @ \ {a.b}]
  OBVIOUS
<1>3. PICK i : i = At(s1, a.b)
  OBVIOUS
<1>4. PICK fl : fl = FuseLeft(s1, i)
  OBVIOUS
<1>5. PICK r : r = FuseRight(fl, IF Len(fl.blocks) < Len(s1.blocks) THEN i - 1 ELSE i)
  OBVIOUS
<1>6. a.b \in s.hunks /\ seg' = [seg EXCEPT !.own = r] /\ segHeld' = segHeld \ {a}
  BY <1>1, <1>2, <1>3, <1>4, <1>5 DEF SegDeallocate
<1>7. Sound(s, segHeld) /\ t = NoSegment /\ seg = [own |-> s, spare |-> t]
  <2>1. s # NoSegment
    BY <1>6 DEF NoSegment
  <2>2. QED
    BY <1>1, <2>1 DEF SegInv
<1>8. Sound(r, segHeld \ {a})
  <2>1. Deallocated(s, a, s1, i, fl, r)
    BY <1>2, <1>3, <1>4, <1>5 DEF Deallocated
  <2>2. QED
    BY <1>7, <2>1, DeallocateKeepsSound
<1>9. seg' = [own |-> r, spare |-> NoSegment]
  BY <1>6, <1>7
<1>10. seg'.own = r /\ seg'.spare = NoSegment /\ seg' = [own |-> seg'.own, spare |-> seg'.spare]
  BY <1>9
<1>11. Sound(seg'.own, segHeld')
  BY <1>6, <1>8, <1>10
<1>12. QED
  BY <1>10, <1>11 DEF SegInv

LEMMA MoveKeeps ==
  ASSUME SegInv, SegMove
  PROVE  SegInv'
<1>1. PICK s, t : s = seg.own /\ t = seg.spare
  OBVIOUS
<1>2. t.base = 0 /\ seg' = [own |-> NoSegment, spare |-> s] /\ segHeld' = segHeld
  BY <1>1 DEF SegMove
<1>3. Sound(s, segHeld)
  BY <1>1, <1>2, InUse DEF SegInv
<1>4. seg'.own = NoSegment /\ seg'.spare = s /\ seg' = [own |-> seg'.own, spare |-> seg'.spare]
  BY <1>2
<1>5. Sound(seg'.spare, segHeld')
  BY <1>2, <1>3, <1>4
<1>6. QED
  BY <1>4, <1>5 DEF SegInv

LEMMA MoveBackKeeps ==
  ASSUME SegInv, SegMoveBack
  PROVE  SegInv'
<1>1. PICK s, t : s = seg.own /\ t = seg.spare
  OBVIOUS
<1>2. s.base = 0 /\ seg' = [own |-> t, spare |-> NoSegment] /\ segHeld' = segHeld
  BY <1>1 DEF SegMoveBack
<1>3. Sound(t, segHeld)
  BY <1>1, <1>2, InUse DEF SegInv
<1>4. seg'.own = t /\ seg'.spare = NoSegment /\ seg' = [own |-> seg'.own, spare |-> seg'.spare]
  BY <1>2
<1>5. Sound(seg'.own, segHeld')
  BY <1>2, <1>3, <1>4
<1>6. QED
  BY <1>4, <1>5 DEF SegInv

LEMMA NextKeeps == SegInv /\ [SegNext]_<<seg, segHeld>> => SegInv'
<1>1. SUFFICES ASSUME SegInv, [SegNext]_<<seg, segHeld>>
               PROVE  SegInv'
  OBVIOUS
<1>2. ASSUME NEW r \in SegRequests, SegAllocate(r[1], r[2])
      PROVE  SegInv'
  <2>1. r[1] \in Nat /\ r[2] \in Nat \ {0}
    BY <1>2, SegAssumption
  <2>2. QED
    BY <1>1, <1>2, <2>1, AllocateKeeps
<1>3. ASSUME NEW a \in segHeld, SegDeallocate(a)
      PROVE  SegInv'
  BY <1>1, <1>3, DeallocateKeeps
<1>4. CASE SegMove
  BY <1>1, <1>4, MoveKeeps
<1>5. CASE SegMoveBack
  BY <1>1, <1>5, MoveBackKeeps
<1>6. CASE UNCHANGED <<seg, segHeld>>
  BY <1>1, <1>6 DEF SegInv
<1>7. QED
  BY <1>1, <1>2, <1>3, <1>4, <1>5, <1>6 DEF SegNext
-----------------------------------------------------------------------------
(* What the invariant says of the list, the indexes and the allocations    *)

LEMMA SoundPartition ==
  ASSUME NEW s, NEW H, Sound(s, H)
  PROVE  BlocksPartition(s)
<1>1. PICK B, ho, hu : Whole(s, H, B, ho, hu)
  BY SoundIsWhole
<1>2. s = Segment(SegBase, SegSize, B, ho, hu) /\ Ascends(B, SegSize) /\ B[1].b = 0 /\ HolesApart(Extents(B, SegSize))
  BY <1>1 DEF Whole, Half
<1>3. s.blocks = B
  BY <1>2 DEF Segment
<1>4. B # <<>>
  BY <1>2 DEF Ascends
<1>5. \A i \in DOMAIN B : B[i].b < EndOf(s, i)
  <2>1. \A i \in DOMAIN B : B[i].b < NextOf(B, SegSize, i)
    BY <1>2, ExtentFacts
  <2>2. \A i : EndOf(s, i) = NextOf(B, SegSize, i)
    BY <1>2, EndIsNext
  <2>3. QED
    BY <2>1, <2>2
<1>6. ASSUME NEW i \in 1 .. Len(B) - 1
      PROVE  ~ (B[i].hole /\ B[i + 1].hole)
  <2>1. PICK n \in Nat : n = Len(B) /\ DOMAIN B = 1 .. n
    BY <1>2, ExtentFacts
  <2>2. PICK g : g = i + 1
    OBVIOUS
  <2>3. i \in Nat /\ g \in DOMAIN B /\ g > 1 /\ g - 1 = i /\ i \in DOMAIN B
    BY <1>6, <2>1, <2>2
  <2>4. SUFFICES ASSUME B[i].hole, B[g].hole
                 PROVE  FALSE
    BY <2>2
  <2>5. B[g].hole = TRUE /\ B[i].hole \in BOOLEAN
    BY <1>2, <2>3, <2>4, ExtentFacts
  <2>6. B[g - 1].hole = FALSE
    BY <1>2, <2>3, <2>5, LeftIsHunk
  <2>7. QED
    BY <2>3, <2>4, <2>6
<1>7. QED
  BY <1>2, <1>3, <1>4, <1>5, <1>6 DEF BlocksPartition

LEMMA SoundIndexes ==
  ASSUME NEW s, NEW H, Sound(s, H)
  PROVE  IndexesAgree(s)
<1>1. PICK B, ho, hu : Whole(s, H, B, ho, hu)
  BY SoundIsWhole
<1>2. s = Segment(SegBase, SegSize, B, ho, hu) /\ ho = HolesOf(Extents(B, SegSize)) /\ hu = HunksOf(Extents(B, SegSize))
  BY <1>1 DEF Whole, Half
<1>3. s.blocks = B /\ s.holes = ho /\ s.hunks = hu
  BY <1>2 DEF Segment
<1>4. \A i : EndOf(s, i) = NextOf(B, SegSize, i)
  BY <1>2, EndIsNext
<1>5. ho = {<<EndOf(s, i) - B[i].b, B[i].b>> : i \in {j \in DOMAIN B : B[j].hole}}
  <2>1. ASSUME NEW h \in ho
        PROVE  \E i \in DOMAIN B : B[i].hole /\ h = <<NextOf(B, SegSize, i) - B[i].b, B[i].b>>
    <3>1. PICK x \in Extents(B, SegSize) : x.hole /\ h = <<x.e - x.b, x.b>>
      BY <1>2, <2>1 DEF HolesOf
    <3>2. PICK i \in DOMAIN B : x = Ext(B, SegSize, i)
      BY <3>1 DEF Extents
    <3>3. x.b = B[i].b /\ x.e = NextOf(B, SegSize, i) /\ x.hole = B[i].hole
      BY <3>2 DEF Ext
    <3>4. QED
      BY <3>1, <3>3
  <2>2. ASSUME NEW i \in DOMAIN B, B[i].hole
        PROVE  <<NextOf(B, SegSize, i) - B[i].b, B[i].b>> \in ho
    <3>1. PICK x \in Extents(B, SegSize) : x = Ext(B, SegSize, i)
      BY DEF Extents
    <3>2. x.b = B[i].b /\ x.e = NextOf(B, SegSize, i) /\ x.hole = B[i].hole
      BY <3>1 DEF Ext
    <3>3. <<x.e - x.b, x.b>> \in ho
      BY <1>2, <2>2, <3>1, <3>2 DEF HolesOf
    <3>4. QED
      BY <3>2, <3>3
  <2>3. QED
    BY <1>4, <2>1, <2>2
<1>6. hu = {B[i].b : i \in {j \in DOMAIN B : ~ B[j].hole}}
  <2>1. ASSUME NEW b \in hu
        PROVE  \E i \in DOMAIN B : ~ B[i].hole /\ b = B[i].b
    <3>1. PICK x \in Extents(B, SegSize) : ~ x.hole /\ b = x.b
      BY <1>2, <2>1 DEF HunksOf
    <3>2. PICK i \in DOMAIN B : x = Ext(B, SegSize, i)
      BY <3>1 DEF Extents
    <3>3. QED
      BY <3>1, <3>2 DEF Ext
  <2>2. ASSUME NEW i \in DOMAIN B, ~ B[i].hole
        PROVE  B[i].b \in hu
    <3>1. PICK x \in Extents(B, SegSize) : x = Ext(B, SegSize, i)
      BY DEF Extents
    <3>2. x.b = B[i].b /\ ~ x.hole
      BY <2>2, <3>1 DEF Ext
    <3>3. QED
      BY <1>2, <3>2 DEF HunksOf
  <2>3. QED
    BY <2>1, <2>2
<1>7. QED
  BY <1>3, <1>5, <1>6 DEF IndexesAgree

LEMMA SoundHeld ==
  ASSUME NEW s, NEW H, Sound(s, H)
  PROVE  /\ s.hunks = {a.b : a \in H} /\ Cardinality(H) = Cardinality(s.hunks)
         /\ \A a \in H : a.b + a.size <= EndOf(s, At(s, a.b)) /\ (s.base + a.b) % a.align = 0
<1>1. PICK B, ho, hu : Whole(s, H, B, ho, hu)
  BY SoundIsWhole
<1>2. /\ s = Segment(SegBase, SegSize, B, ho, hu) /\ Ascends(B, SegSize) /\ hu = HunksOf(Extents(B, SegSize))
      /\ HeldIn(Extents(B, SegSize), H, SegBase)
  BY <1>1 DEF Whole, Half
<1>3. s.blocks = B /\ s.hunks = hu /\ s.base = SegBase
  BY <1>2 DEF Segment
<1>4. /\ IsFiniteSet(H)
      /\ \A a \in H : \E x \in Extents(B, SegSize) : ~ x.hole /\ x.b = a.b /\ a.b + a.size <= x.e
      /\ \A x \in Extents(B, SegSize) : ~ x.hole => \E a \in H : x.b = a.b
      /\ \A a, c \in H : a.b = c.b => a = c
      /\ \A a \in H : (SegBase + a.b) % a.align = 0
  BY <1>2 DEF HeldIn
<1>5. hu = {a.b : a \in H}
  BY <1>2, <1>4 DEF HunksOf
<1>6. Cardinality(H) = Cardinality(hu)
  <2>1. PICK f : f = [a \in H |-> a.b]
    OBVIOUS
  <2>2. f \in [H -> hu] /\ (\A a, c \in H : f[a] = f[c] => a = c) /\ \A b \in hu : \E a \in H : f[a] = b
    BY <1>4, <1>5, <2>1
  <2>3. f \in Bijection(H, hu)
    BY <2>2 DEF Bijection, Injection, Surjection, IsInjective
  <2>4. ExistsBijection(H, hu)
    BY <2>3 DEF ExistsBijection
  <2>5. QED
    BY <1>4, <2>4, FS_Bijection
<1>7. ASSUME NEW a \in H
      PROVE  a.b + a.size <= EndOf(s, At(s, a.b))
  <2>1. PICK x \in Extents(B, SegSize) : x.b = a.b /\ a.b + a.size <= x.e
    BY <1>4, <1>7
  <2>2. PICK i \in DOMAIN B : x = Ext(B, SegSize, i)
    BY <2>1 DEF Extents
  <2>3. x.b = B[i].b /\ x.e = NextOf(B, SegSize, i)
    BY <2>2 DEF Ext
  <2>4. At(s, B[i].b) = i
    BY <1>2, <1>3, AtFinds
  <2>5. EndOf(s, i) = NextOf(B, SegSize, i)
    BY <1>2, EndIsNext
  <2>6. QED
    BY <2>1, <2>3, <2>4, <2>5
<1>8. QED
  BY <1>3, <1>4, <1>5, <1>6, <1>7

LEMMA NoSegmentExact == BlocksPartition(NoSegment) /\ IndexesAgree(NoSegment) /\ NoSegment.endpost = 0
<1>1. PICK s : s = NoSegment
  OBVIOUS
<1>2. s.endpost = 0 /\ s.blocks = <<>> /\ s.holes = {} /\ s.hunks = {}
  BY <1>1 DEF NoSegment
<1>3. DOMAIN s.blocks = {} /\ Len(s.blocks) = 0
  BY <1>2
<1>4. \A i : ~ (i \in 1 .. Len(s.blocks) - 1)
  BY <1>3
<1>5. BlocksPartition(s)
  BY <1>2, <1>3, <1>4 DEF BlocksPartition
<1>6. IndexesAgree(s)
  BY <1>2, <1>3 DEF IndexesAgree
<1>7. QED
  BY <1>1, <1>2, <1>5, <1>6

LEMMA InvariantIsExact == SegInv => SegmentExact
<1>1. SUFFICES ASSUME SegInv
               PROVE  SegmentExact
  OBVIOUS
<1>2. PICK s, t : s = seg.own /\ t = seg.spare
  OBVIOUS
<1>3. seg["own"] = s /\ seg["spare"] = t
  BY <1>2
<1>4. PICK c : c = IF s.endpost > 0 THEN s ELSE t
  OBVIOUS
<1>5. Sound(c, segHeld) /\ BlocksPartition(s) /\ IndexesAgree(s) /\ BlocksPartition(t) /\ IndexesAgree(t)
  <2>1. CASE Sound(s, segHeld) /\ t = NoSegment
    <3>1. BlocksPartition(s) /\ IndexesAgree(s) /\ s.endpost > 0
      BY <2>1, SoundPartition, SoundIndexes, InUse
    <3>2. c = s
      BY <1>4, <3>1
    <3>3. QED
      BY <2>1, <3>1, <3>2, NoSegmentExact
  <2>2. CASE Sound(t, segHeld) /\ s = NoSegment
    <3>1. BlocksPartition(t) /\ IndexesAgree(t)
      BY <2>2, SoundPartition, SoundIndexes
    <3>2. s.endpost = 0
      BY <2>2, NoSegmentExact
    <3>3. c = t
      BY <1>4, <3>2
    <3>4. QED
      BY <2>2, <3>1, <3>3, NoSegmentExact
  <2>3. QED
    BY <1>1, <1>2, <2>1, <2>2 DEF SegInv
<1>6. HeldApart(c)
  BY <1>5, SoundHeld DEF HeldApart
<1>7. QED
  BY <1>2, <1>3, <1>4, <1>5, <1>6 DEF SegmentExact

\* For a segment of any size at any address, any requests and any order of allocate,
\* deallocate and moves: one of the two allocators has the segment, its blocks ascend, the
\* indexes follow from them, no hole borders on another, and what is held lies in hunks
\* (allocator segment_allocator.cpp: allocate, deallocate, move assignment).
THEOREM SegmentInvariant == SegSpec => []SegInv
<1>1. SegInit => SegInv
  BY InitEstablishes
<1>2. SegInv /\ [SegNext]_<<seg, segHeld>> => SegInv'
  BY NextKeeps
<1>3. QED
  BY <1>1, <1>2, PTL DEF SegSpec

\* The two invariants the comment in segment_allocator.cpp states, and that each
\* allocation lies, aligned, within one hunk of its own, never break.
THEOREM SegmentStaysExact == SegSpec => []SegmentExact
BY SegmentInvariant, InvariantIsExact, PTL

-----------------------------------------------------------------------------
(* Global pointers.  From the arithmetic of words, over the tables that    *)
(* every process builds at start-up, to the invariant GpInv: the pointer   *)
(* at hand and the one remembered each mean the byte the program meant.    *)

\* A set of numbers has a least element.
LEMMA LeastNat ==
  ASSUME NEW S \in SUBSET Nat, S # {}
  PROVE  \E n \in S : \A k \in S : n <= k
<1> DEFINE R == OpToRel(<, Nat)
<1>1. IsWellFoundedOn(R, Nat)
  BY NatLessThanWellFounded
<1> HIDE DEF R
<1>2. PICK n \in S : \A k \in S : <<k, n>> \notin R
  BY <1>1, WFMin
<1>3. ASSUME NEW k \in S
      PROVE  n <= k
  <2>1. <<k, n>> \notin R
    BY <1>2
  <2>2. k \in Nat /\ n \in Nat
    BY <1>2
  <2>3. ~(k < n)
    BY <2>1, <2>2 DEF R, OpToRel
  <2>4. QED
    BY <2>2, <2>3
<1>4. QED
  BY <1>2, <1>3

-----------------------------------------------------------------------------
(* Arithmetic of words                                                     *)

\* Quotient and remainder are unique.
LEMMA Remainder ==
  ASSUME NEW w \in Nat \ {0}, NEW q \in Int, NEW r \in 0 .. w - 1
  PROVE  (q * w + r) % w = r /\ (q * w + r) \div w = q
<1>1. PICK n \in Int : n = q * w + r
  OBVIOUS
<1>2. PICK d \in Int, e \in Int : d = n \div w /\ e = n % w
  OBVIOUS
<1>3. n = d * w + e /\ 0 <= e /\ e < w
  BY <1>2
<1>4. (q - d) * w = e - r
  BY <1>1, <1>3
<1>5. PICK k \in Int : k = q - d
  OBVIOUS
<1>6. k * w = e - r /\ e - r < w /\ -w < e - r
  BY <1>3, <1>4, <1>5
<1>7. ~ (k >= 1)
  <2>1. k >= 1 => k * w >= w
    OBVIOUS
  <2>2. QED
    BY <1>6, <2>1
<1>8. ~ (k <= -1)
  <2>1. k <= -1 => k * w <= -w
    OBVIOUS
  <2>2. QED
    BY <1>6, <2>1
<1>9. k = 0
  BY <1>7, <1>8
<1>10. d = q /\ e = r
  BY <1>5, <1>6, <1>9
<1>11. QED
  BY <1>1, <1>2, <1>10

\* The word, as the proofs see it.
LEMMA WordFacts ==
  /\ GpWord \in Nat \ {0} /\ GpHalf \in Nat \ {0} /\ GpWord = GpHalf * GpHalf
  /\ \A n \in Int : Addr(n) \in 0 .. GpWord - 1
<1>1. GpHalf \in Nat \ {0}
  BY GlobalPtrAssumption
<1>2. GpHalf * GpHalf \in Nat \ {0}
  BY <1>1
<1>3. GpWord \in Nat \ {0}
  BY <1>2 DEF GpWord
<1>4. \A n \in Int : n % GpWord \in 0 .. GpWord - 1
  BY <1>3
<1>5. QED
  BY <1>1, <1>3, <1>4 DEF GpWord, Addr

\* What an address means once it is back in a word.
LEMMA AddrOf ==
  ASSUME NEW q \in Int, NEW r \in 0 .. GpWord - 1
  PROVE  Addr(q * GpWord + r) = r /\ Addr(r) = r
<1>1. GpWord \in Nat \ {0}
  BY WordFacts
<1>2. (q * GpWord + r) % GpWord = r
  BY <1>1, Remainder
<1>3. 0 \in Int /\ (0 * GpWord + r) % GpWord = r
  BY <1>1, Remainder
<1>4. 0 * GpWord + r = r
  BY <1>1
<1>5. QED
  BY <1>2, <1>3, <1>4 DEF Addr

\* Adding and subtracting a difference that was itself reduced to a word.
LEMMA AddrShift ==
  ASSUME NEW x \in Int, NEW y \in Int
  PROVE  /\ x + y \in 0 .. GpWord - 1 => Addr(x + Addr(y)) = x + y
         /\ x - y \in 0 .. GpWord - 1 => Addr(x - Addr(y)) = x - y
<1>1. GpWord \in Nat \ {0}
  BY WordFacts
<1>2. PICK k \in Int, a \in Int : k = y \div GpWord /\ a = Addr(y)
  BY <1>1, WordFacts
<1>3. y = k * GpWord + a
  BY <1>1, <1>2 DEF Addr
<1>4. PICK m \in Int : m = k * GpWord
  BY <1>1
<1>5. (-k) * GpWord = -m
  BY <1>1, <1>4
<1>6. x + a = (-k) * GpWord + (x + y) /\ x - a = k * GpWord + (x - y) /\ -k \in Int
  BY <1>3, <1>4, <1>5
<1>7. QED
  BY <1>2, <1>6, AddrOf

\* An address crosses in two halves.
LEMMA HalvesMeet ==
  ASSUME NEW u \in 0 .. GpWord - 1
  PROVE  decode(encode_lo(u), encode_hi(u)) = u
<1>1. GpHalf \in Nat \ {0} /\ GpWord \in Nat \ {0} /\ GpWord = GpHalf * GpHalf
  BY WordFacts
<1>2. PICK q \in Int, l \in Int : q = u \div GpHalf /\ l = u % GpHalf
  BY <1>1
<1>3. u = q * GpHalf + l /\ l \in 0 .. GpHalf - 1
  BY <1>1, <1>2
<1>4. encode_lo(u) % GpHalf = l
  <2>1. encode_lo(u) = 0 * GpHalf + l \/ encode_lo(u) = (-1) * GpHalf + l
    BY <1>1, <1>2, <1>3 DEF encode_lo, Signed
  <2>2. (0 * GpHalf + l) % GpHalf = l /\ ((-1) * GpHalf + l) % GpHalf = l
    BY <1>1, <1>3, Remainder
  <2>3. QED
    BY <2>1, <2>2
<1>5. encode_hi(u) = q \/ encode_hi(u) = q - GpHalf
  <2>1. CASE 2 * u < GpWord
    <3>1. encode_hi(u) = (q * GpHalf + l) \div GpHalf
      BY <1>3, <2>1 DEF encode_hi, Signed
    <3>2. QED
      BY <1>1, <1>3, <3>1, Remainder
  <2>2. CASE ~ (2 * u < GpWord)
    <3>1. u - GpWord = (q - GpHalf) * GpHalf + l
      BY <1>1, <1>3
    <3>2. encode_hi(u) = ((q - GpHalf) * GpHalf + l) \div GpHalf
      BY <2>2, <3>1 DEF encode_hi, Signed
    <3>3. q - GpHalf \in Int
      BY <1>1
    <3>4. QED
      BY <1>1, <1>3, <3>2, <3>3, Remainder
  <2>3. QED
    BY <2>1, <2>2
<1>6. encode_hi(u) * GpHalf + l = 0 * GpWord + u \/ encode_hi(u) * GpHalf + l = (-1) * GpWord + u
  <2>1. (q - GpHalf) * GpHalf = q * GpHalf - GpWord
    BY <1>1
  <2>2. CASE encode_hi(u) = q
    BY <1>1, <1>3, <2>2
  <2>3. CASE encode_hi(u) = q - GpHalf
    <3>1. encode_hi(u) * GpHalf = q * GpHalf - GpWord
      BY <2>1, <2>3
    <3>2. PICK m \in Int : m = q * GpHalf
      BY <1>1
    <3>3. QED
      BY <1>1, <1>3, <3>1, <3>2
  <2>4. QED
    BY <1>5, <2>2, <2>3
<1>7. Addr(0 * GpWord + u) = u /\ Addr((-1) * GpWord + u) = u
  BY AddrOf
<1>8. QED
  BY <1>4, <1>6, <1>7 DEF decode

\* A difference that fits a ptrdiff_t survives the word.
LEMMA DifferenceFits ==
  ASSUME NEW n \in Int, 2 * n < GpWord, -GpWord < 2 * n
  PROVE  Signed(Addr(n), GpWord) = n
<1>1. GpWord \in Nat \ {0}
  BY WordFacts
<1>2. CASE n >= 0
  <2>1. Addr(n) = n
    <3>1. n \in 0 .. GpWord - 1
      BY <1>1, <1>2
    <3>2. QED
      BY <3>1, AddrOf
  <2>2. QED
    BY <2>1 DEF Signed
<1>3. CASE n < 0
  <2>1. n = (-1) * GpWord + (n + GpWord) /\ n + GpWord \in 0 .. GpWord - 1
    BY <1>1, <1>3
  <2>2. Addr(n) = n + GpWord
    BY <2>1, AddrOf
  <2>3. QED
    BY <1>1, <2>2 DEF Signed
<1>4. QED
  BY <1>2, <1>3

-----------------------------------------------------------------------------
(* The layout, from the assumption on it                                   *)

LEMMA Layout ==
  /\ GpSize \in Nat \ {0} /\ 2 * GpSize < GpWord /\ GpElement \in Nat \ {0}
  /\ 0 \in GpRanks /\ GpRanks \subseteq Nat /\ GpAddresses \subseteq 0 .. GpWord - 1
  /\ \A me \in GpRanks : me \in GpPeers[me] /\ GpPeers[me] \subseteq GpRanks /\ IsFiniteSet(GpPeers[me])
  /\ \A me \in GpRanks : \A r \in GpPeers[me] :
       GpView[me][r] \in Nat \ {0} /\ GpView[me][r] + GpSize < GpWord
  /\ \A me \in GpRanks : \A r, s \in GpPeers[me] :
       r = s \/ GpView[me][r] + GpSize <= GpView[me][s] \/ GpView[me][s] + GpSize <= GpView[me][r]
<1>1. PICK n \in 1 .. GpWord : GpRanks = 0 .. n - 1
  BY GlobalPtrAssumption DEF GpWord
<1>2. GpWord \in Nat
  BY WordFacts
<1>3. 0 \in GpRanks /\ GpRanks \subseteq Nat
  BY <1>1, <1>2
<1>4. \A me \in GpRanks : me \in GpPeers[me] /\ GpPeers[me] \subseteq GpRanks /\ IsFiniteSet(GpPeers[me])
  <2> TAKE me \in GpRanks
  <2>1. PICK lb, ub \in GpRanks : me \in lb .. ub /\ GpPeers[me] = lb .. ub
    BY GlobalPtrAssumption
  <2>2. lb .. ub \subseteq GpRanks /\ lb \in Int /\ ub \in Int
    BY <1>1, <1>2
  <2>3. IsFiniteSet(lb .. ub)
    BY <2>2, FS_Interval
  <2>4. QED
    BY <2>1, <2>2, <2>3
<1>5. QED
  BY <1>3, <1>4, GlobalPtrAssumption DEF GpWord

\* rank_is_local, with its one comparison of unsigned numbers, is membership in the local team.
LEMMA LocalRanks ==
  ASSUME NEW me \in GpRanks, NEW r \in GpRanks
  PROVE  gp_rank_is_local(me, r) <=> r \in GpPeers[me]
<1>1. PICK n \in 1 .. GpWord : GpRanks = 0 .. n - 1
  BY GlobalPtrAssumption DEF GpWord
<1>2. GpWord \in Nat
  BY WordFacts
<1>3. PICK lb, ub \in GpRanks : me \in lb .. ub /\ GpPeers[me] = lb .. ub
  BY GlobalPtrAssumption
<1>4. lb \in Nat /\ ub \in Nat /\ r \in Nat /\ lb <= ub /\ ub < GpWord /\ r < GpWord
  BY <1>1, <1>2, <1>3
<1>5. PeerLb(me) = lb
  <2>1. lb \in GpPeers[me] /\ \A s \in GpPeers[me] : lb <= s
    BY <1>3, <1>4
  <2>2. \A x \in GpPeers[me] : (\A s \in GpPeers[me] : x <= s) => x = lb
    <3> SUFFICES ASSUME NEW x \in GpPeers[me], x <= lb
                 PROVE  x = lb
      BY <2>1
    <3>1. x \in Int /\ lb <= x
      BY <1>3, <1>4
    <3>2. QED
      BY <1>4, <3>1
  <2>3. QED
    BY <2>1, <2>2 DEF PeerLb
<1>6. Cardinality(GpPeers[me]) = ub - lb + 1
  BY <1>3, <1>4, FS_Interval
<1>7. CASE r >= lb
  <2>1. r - lb \in 0 .. GpWord - 1
    BY <1>2, <1>4, <1>7
  <2>2. Addr(r - lb) = r - lb
    BY <2>1, AddrOf
  <2>3. QED
    BY <1>3, <1>4, <1>5, <1>6, <1>7, <2>2 DEF gp_rank_is_local
<1>8. CASE r < lb
  <2>1. r - lb + GpWord \in 0 .. GpWord - 1 /\ r - lb = (-1) * GpWord + (r - lb + GpWord)
    BY <1>2, <1>4, <1>8
  <2>2. Addr(r - lb) = r - lb + GpWord
    BY <2>1, AddrOf
  <2>3. ~ (r - lb + GpWord < ub - lb + 1)
    BY <1>2, <1>4
  <2>4. QED
    BY <1>3, <1>4, <1>5, <1>6, <1>8, <2>2, <2>3 DEF gp_rank_is_local
<1>9. QED
  BY <1>4, <1>7, <1>8

-----------------------------------------------------------------------------
(* The sorted table of peers, and the search in it                         *)

Below(me, x) == {q \in GpPeers[me] : GpView[me][q] <= x}

\* Every position of the table has the one peer with so many bases up to its own.
LEMMA TableFilled ==
  ASSUME NEW me \in GpRanks
  PROVE  /\ Cardinality(GpPeers[me]) \in Nat
         /\ DOMAIN OwnerPeer(me) = 1 .. Cardinality(GpPeers[me]) /\ Len(OwnerPeer(me)) = Cardinality(GpPeers[me])
         /\ \A i \in DOMAIN OwnerPeer(me) :
              /\ OwnerPeer(me)[i] \in GpPeers[me]
              /\ Cardinality(Below(me, GpView[me][OwnerPeer(me)[i]])) = i
         /\ \A p \in GpPeers[me] : \E i \in DOMAIN OwnerPeer(me) : OwnerPeer(me)[i] = p
<1> DEFINE P == GpPeers[me]
           K == GpView[me]
           n == Cardinality(P)
           f == [p \in P |-> Cardinality(Below(me, K[p]))]
<1>1. IsFiniteSet(P) /\ (\A p \in P : K[p] \in Nat) /\ \A p, q \in P : K[p] = K[q] => p = q
  <2>1. IsFiniteSet(P) /\ (\A p \in P : K[p] \in Nat) /\ GpSize \in Nat \ {0}
    BY Layout
  <2>2. \A p, q \in P : p = q \/ K[p] + GpSize <= K[q] \/ K[q] + GpSize <= K[p]
    BY Layout
  <2>3. QED
    BY <2>1, <2>2
<1>2. n \in Nat
  BY <1>1, FS_CardinalityType
<1>3. \A p \in P : Below(me, K[p]) \subseteq P /\ IsFiniteSet(Below(me, K[p])) /\ p \in Below(me, K[p])
  <2> TAKE p \in P
  <2>1. Below(me, K[p]) \subseteq P /\ p \in Below(me, K[p])
    BY <1>1 DEF Below
  <2>2. QED
    BY <1>1, <2>1, FS_Subset
<1>4. \A p \in P : Cardinality(Below(me, K[p])) \in 1 .. n
  <2> TAKE p \in P
  <2>1. Cardinality(Below(me, K[p])) <= n /\ Cardinality(Below(me, K[p])) \in Nat
    BY <1>1, <1>3, FS_Subset, FS_CardinalityType
  <2>2. Cardinality(Below(me, K[p])) # 0
    BY <1>3, FS_EmptySet
  <2>3. QED
    BY <1>2, <2>1, <2>2
<1>5. \A p, q \in P : K[p] < K[q] => Cardinality(Below(me, K[p])) # Cardinality(Below(me, K[q]))
  <2> SUFFICES ASSUME NEW p \in P, NEW q \in P, K[p] < K[q]
               PROVE  Cardinality(Below(me, K[p])) # Cardinality(Below(me, K[q]))
    OBVIOUS
  <2>1. K[p] \in Nat /\ K[q] \in Nat
    BY <1>1
  <2>2. Below(me, K[p]) \subseteq Below(me, K[q])
    BY <1>1, <2>1 DEF Below
  <2>3. q \notin Below(me, K[p])
    BY <2>1 DEF Below
  <2>4. QED
    BY <1>3, <2>2, <2>3, FS_Subset
<1>6. f \in [P -> 1 .. n] /\ \A p, q \in P : f[p] = f[q] => p = q
  <2>1. f \in [P -> 1 .. n]
    BY <1>4
  <2>2. \A p, q \in P : f[p] = f[q] => p = q
    BY <1>1, <1>5
  <2>3. QED
    BY <2>1, <2>2
<1>9. OwnerPeer(me) = [i \in 1 .. n |-> CHOOSE p \in P : Cardinality(Below(me, K[p])) = i]
  BY DEF OwnerPeer, PeersBy, Below
<1>14. \A p \in P : f[p] = Cardinality(Below(me, K[p]))
  OBVIOUS
<1> HIDE DEF f, n, K, P
<1>7. f \in Surjection(P, 1 .. n)
  <2>1. 1 \in Int /\ n \in Int
    BY <1>2
  <2>2. IsFiniteSet(1 .. n) /\ Cardinality(1 .. n) = n
    BY <1>2, <2>1, FS_Interval
  <2>3. f \in Injection(P, 1 .. n)
    BY <1>6 DEF Injection, IsInjective
  <2>4. QED
    BY <2>2, <2>3, FS_Injection DEF n
<1>8. \A i \in 1 .. n : \E p \in P : f[p] = i
  BY <1>7 DEF Surjection
<1>10. \A i \in 1 .. n : OwnerPeer(me)[i] \in P /\ Cardinality(Below(me, K[OwnerPeer(me)[i]])) = i
  <2> TAKE i \in 1 .. n
  <2>1. \E p \in P : Cardinality(Below(me, K[p])) = i
    BY <1>8, <1>14
  <2>2. OwnerPeer(me)[i] = CHOOSE p \in P : Cardinality(Below(me, K[p])) = i
    BY <1>9
  <2>3. QED
    BY <2>1, <2>2
<1>11. ASSUME NEW p \in P
       PROVE  \E i \in 1 .. n : OwnerPeer(me)[i] = p
  <2>1. f[p] \in 1 .. n
    BY <1>6
  <2>2. f[OwnerPeer(me)[f[p]]] = f[p] /\ OwnerPeer(me)[f[p]] \in P
    BY <1>10, <1>14, <2>1
  <2>3. OwnerPeer(me)[f[p]] = p
    BY <1>6, <2>2
  <2>4. QED
    BY <2>1, <2>3
<1>12. DOMAIN OwnerPeer(me) = 1 .. n /\ Len(OwnerPeer(me)) = n
  <2>1. OwnerPeer(me) \in Seq(P)
    <3>1. OwnerPeer(me) \in [1 .. n -> P]
      BY <1>9, <1>10
    <3>2. QED
      BY <1>2, <3>1
  <2>2. DOMAIN OwnerPeer(me) = 1 .. n
    BY <1>9
  <2>3. QED
    BY <1>2, <2>1, <2>2
<1>13. QED
  BY <1>2, <1>10, <1>11, <1>12 DEF n, K, P

\* Its bases ascend.
LEMMA TableSorted ==
  ASSUME NEW me \in GpRanks, NEW i \in DOMAIN OwnerPeer(me), NEW j \in DOMAIN OwnerPeer(me), i <= j
  PROVE  GpView[me][OwnerPeer(me)[i]] <= GpView[me][OwnerPeer(me)[j]]
<1> DEFINE a == GpView[me][OwnerPeer(me)[i]]
           b == GpView[me][OwnerPeer(me)[j]]
<1>1. OwnerPeer(me)[i] \in GpPeers[me] /\ OwnerPeer(me)[j] \in GpPeers[me] /\ i \in Int /\ j \in Int
  BY TableFilled
<1>2. a \in Nat /\ b \in Nat /\ \A q \in GpPeers[me] : GpView[me][q] \in Nat
  BY <1>1, Layout
<1>3. Cardinality(Below(me, a)) = i /\ Cardinality(Below(me, b)) = j
  BY TableFilled
<1> HIDE DEF a, b
<1>4. ASSUME b < a
      PROVE  FALSE
  <2>1. Below(me, b) \subseteq Below(me, a)
    BY <1>2, <1>4 DEF Below
  <2>2. IsFiniteSet(Below(me, a))
    <3>1. Below(me, a) \subseteq GpPeers[me] /\ IsFiniteSet(GpPeers[me])
      BY Layout DEF Below
    <3>2. QED
      BY <3>1, FS_Subset
  <2>3. j <= i /\ (i = j => Below(me, a) = Below(me, b))
    BY <1>3, <2>1, <2>2, FS_Subset
  <2>4. i = j
    BY <1>1, <2>3
  <2>5. a = b
    BY <2>4 DEF a, b
  <2>6. QED
    BY <1>2, <1>4, <2>5
<1>5. QED
  BY <1>2, <1>4 DEF a, b

\* upper_bound finds the last base that is not above the address.
LEMMA KeyFacts ==
  ASSUME NEW me \in GpRanks, NEW addr \in Int
  PROVE  /\ KeyIx(me, addr) \in 0 .. Len(OwnerPeer(me))
         /\ KeyIx(me, addr) > 0 =>
              LET p == OwnerPeer(me)[KeyIx(me, addr)]
              IN  p \in GpPeers[me] /\ GpView[me][p] <= addr
         /\ \A q \in GpPeers[me] : GpView[me][q] <= addr =>
              KeyIx(me, addr) > 0 /\ GpView[me][q] <= GpView[me][OwnerPeer(me)[KeyIx(me, addr)]]
<1> DEFINE O == OwnerPeer(me)
           V(i) == GpView[me][O[i]]
           n == Len(O)
           above == {i \in DOMAIN O : addr < V(i)}
           k == KeyIx(me, addr)
<1>1. n \in Nat /\ DOMAIN O = 1 .. n
  BY TableFilled
<1>2. \A i \in 1 .. n : O[i] \in GpPeers[me] /\ V(i) \in Int
  <2>1. \A i \in 1 .. n : O[i] \in GpPeers[me]
    BY <1>1, TableFilled
  <2>2. QED
    BY <2>1, Layout
<1>3. \A i, j \in 1 .. n : i <= j => V(i) <= V(j)
  BY <1>1, TableSorted
<1>4. k = IF above = {} THEN n ELSE (CHOOSE i \in above : \A j \in above : i <= j) - 1
  BY DEF KeyIx
<1>5. \A q \in GpPeers[me] : \E i \in 1 .. n : O[i] = q
  BY <1>1, TableFilled
<1>6. above = {i \in 1 .. n : addr < V(i)}
  BY <1>1
<1> HIDE DEF k, above, V, n, O
<1>7. k \in 0 .. n /\ (\A i \in 1 .. n : i <= k => V(i) <= addr) /\ (\A i \in 1 .. n : i > k => addr < V(i))
  <2>1. CASE above = {}
    BY <1>1, <1>2, <1>4, <1>6, <2>1
  <2>2. CASE above # {}
    <3>1. PICK m \in above : \A j \in above : m <= j
      <4>1. above \in SUBSET Nat
        BY <1>1, <1>6
      <4>2. QED
        BY <2>2, <4>1, LeastNat
    <3>2. \A i \in above : (\A j \in above : i <= j) => i = m
      <4> SUFFICES ASSUME NEW i \in above, i <= m
                   PROVE  i = m
        BY <3>1
      <4>1. m <= i /\ m \in Int /\ i \in Int
        BY <1>6, <3>1
      <4>2. QED
        BY <4>1
    <3>3. k = m - 1
      <4>1. (CHOOSE i \in above : \A j \in above : i <= j) = m
        BY <3>1, <3>2
      <4>2. QED
        BY <1>4, <2>2, <4>1
    <3>4. m \in 1 .. n /\ addr < V(m) /\ V(m) \in Int
      BY <1>2, <1>6
    <3>5. ASSUME NEW i \in 1 .. n, i <= k
          PROVE  V(i) <= addr
      <4>1. i \notin above
        BY <1>1, <3>1, <3>3, <3>4, <3>5
      <4>2. QED
        BY <1>2, <1>6, <4>1
    <3>6. ASSUME NEW i \in 1 .. n, i > k
          PROVE  addr < V(i)
      <4>1. m <= i
        BY <1>1, <3>3, <3>4, <3>6
      <4>2. V(m) <= V(i) /\ V(i) \in Int
        BY <1>2, <1>3, <3>4, <4>1
      <4>3. QED
        BY <3>4, <4>2
    <3>7. QED
      BY <1>1, <3>3, <3>4, <3>5, <3>6
  <2>3. QED
    BY <2>1, <2>2
<1>8. ASSUME k > 0
      PROVE  O[k] \in GpPeers[me] /\ V(k) <= addr
  <2>1. k \in 1 .. n /\ k <= k
    BY <1>1, <1>7, <1>8
  <2>2. QED
    BY <1>2, <1>7, <2>1
<1>9. ASSUME NEW q \in GpPeers[me], GpView[me][q] <= addr
      PROVE  k > 0 /\ GpView[me][q] <= V(k)
  <2>1. PICK i \in 1 .. n : O[i] = q
    BY <1>5
  <2>2. V(i) = GpView[me][q] /\ V(i) \in Int
    BY <1>2, <2>1 DEF V
  <2>3. i <= k
    BY <1>1, <1>7, <1>9, <2>2
  <2>4. k \in 1 .. n
    BY <1>1, <1>7, <2>3
  <2>5. V(i) <= V(k)
    BY <1>3, <2>3, <2>4
  <2>6. QED
    BY <1>1, <2>2, <2>4, <2>5
<1>10. QED
  BY <1>7, <1>8, <1>9 DEF k, V, n, O

\* The address at which process me maps byte off of rank r's segment becomes
\* the owner's address of that byte, and back.
LEMMA Translated ==
  ASSUME NEW me \in GpRanks, NEW r \in GpPeers[me], NEW off \in 0 .. GpSize
  PROVE  /\ GpView[r][r] \in Nat \ {0} /\ GpView[r][r] + off \in 1 .. GpWord - 1
         /\ GpView[me][r] + off \in 1 .. GpWord - 1
         /\ Addr((GpView[me][r] + off) - LocalMinusRemote(me, r)) = GpView[r][r] + off
         /\ Addr((GpView[r][r] + off) + LocalMinusRemote(me, r)) = GpView[me][r] + off
<1> DEFINE a == GpView[me][r]
           b == GpView[r][r]
<1>1. r \in GpRanks /\ r \in GpPeers[r] /\ GpWord \in Nat /\ GpSize \in Nat
  BY Layout, WordFacts
<1>2. a \in Nat \ {0} /\ a + GpSize < GpWord /\ b \in Nat \ {0} /\ b + GpSize < GpWord
  BY <1>1, Layout
<1>3. LocalMinusRemote(me, r) = Addr(a - b)
  BY DEF LocalMinusRemote
<1> HIDE DEF a, b
<1>4. b + off \in 1 .. GpWord - 1 /\ a + off \in 1 .. GpWord - 1 /\ a - b \in Int
  BY <1>1, <1>2
<1>5. (a + off) - (a - b) = b + off /\ (b + off) + (a - b) = a + off /\ a + off \in Int /\ b + off \in Int
  BY <1>1, <1>2
<1>6. b + off \in 0 .. GpWord - 1 /\ a + off \in 0 .. GpWord - 1
  BY <1>4
<1>7. Addr((a + off) - Addr(a - b)) = b + off
  BY <1>4, <1>5, <1>6, AddrShift
<1>8. Addr((b + off) + Addr(a - b)) = a + off
  BY <1>4, <1>5, <1>6, AddrShift
<1>9. QED
  BY <1>2, <1>3, <1>4, <1>7, <1>8 DEF a, b

\* An address in a segment, or at the end of one where no other begins, is found there.
LEMMA PeerFound ==
  ASSUME NEW me \in GpRanks, NEW addr \in 0 .. GpWord - 1, NEW r \in GpPeers[me],
         addr - GpView[me][r] \in 0 .. GpSize,
         addr - GpView[me][r] = GpSize => \A q \in GpPeers[me] : addr - GpView[me][q] \notin 0 .. GpSize - 1
  PROVE  globalize_memory(me, addr) = <<r, GpView[r][r] + (addr - GpView[me][r])>>
<1> DEFINE k == KeyIx(me, addr)
           p == OwnerPeer(me)[k]
           a == GpView[me][r]
           b == GpView[me][p]
<1>1. GpWord \in Nat /\ GpSize \in Nat \ {0} /\ addr \in Int /\ a \in Nat
  BY Layout, WordFacts
<1>2. a <= addr
  BY <1>1
<1>3. k > 0 /\ a <= b /\ p \in GpPeers[me] /\ b <= addr
  BY <1>1, <1>2, KeyFacts
<1>4. b \in Nat
  BY <1>3, Layout
<1>5. p = r \/ b + GpSize <= a \/ a + GpSize <= b
  BY <1>3, Layout
<1>6. addr - b \notin 0 .. GpSize - 1 \/ addr - a # GpSize
  BY <1>3
<1> HIDE DEF k, p, a, b
<1>7. p = r
  BY <1>1, <1>3, <1>4, <1>5, <1>6 DEF a
<1>8. b = a
  BY <1>7 DEF a, b
<1>9. addr - a \in 0 .. GpWord - 1 /\ addr - a \in 0 .. GpSize
  BY <1>1, <1>2 DEF a
<1>10. InSomeSegment(me, addr)
  <2>1. Addr(addr - b) = addr - a
    BY <1>8, <1>9, AddrOf
  <2>2. QED
    BY <1>1, <1>3, <1>9, <2>1 DEF InSomeSegment, k, p, b
<1>11. globalize_memory(me, addr) = <<r, Addr(addr - LocalMinusRemote(me, r))>>
  BY <1>7, <1>10 DEF globalize_memory, k, p
<1>12. Addr((a + (addr - a)) - LocalMinusRemote(me, r)) = GpView[r][r] + (addr - a)
  BY <1>9, Translated DEF a
<1>13. a + (addr - a) = addr
  BY <1>1
<1>14. QED
  BY <1>11, <1>12, <1>13 DEF a

\* An address that is in no segment, nor at the end of one, is found nowhere.
LEMMA NoPeerFound ==
  ASSUME NEW me \in GpRanks, NEW addr \in 0 .. GpWord - 1,
         \A r \in GpPeers[me] : addr - GpView[me][r] \notin 0 .. GpSize
  PROVE  globalize_memory(me, addr) = Nowhere
<1> DEFINE p == OwnerPeer(me)[KeyIx(me, addr)]
<1>1. SUFFICES ASSUME InSomeSegment(me, addr)
               PROVE  FALSE
  BY DEF globalize_memory
<1>2. KeyIx(me, addr) > 0 /\ Addr(addr - GpView[me][p]) <= GpSize
  BY <1>1 DEF InSomeSegment
<1>3. p \in GpPeers[me] /\ GpView[me][p] <= addr
  BY <1>2, KeyFacts
<1>4. GpView[me][p] \in Nat /\ GpWord \in Nat /\ GpSize \in Nat
  BY <1>3, Layout, WordFacts
<1>5. addr - GpView[me][p] \in 0 .. GpWord - 1
  BY <1>3, <1>4
<1>6. Addr(addr - GpView[me][p]) = addr - GpView[me][p]
  BY <1>5, AddrOf
<1>7. QED
  BY <1>2, <1>3, <1>4, <1>5, <1>6

\* What the program sees at an address is what the tables find.
LEMMA SeenIsFound ==
  ASSUME NEW me \in GpRanks, NEW addr \in 0 .. GpWord - 1
  PROVE  \/ Seen(me, addr) = Nothing /\ globalize_memory(me, addr) = Nowhere
         \/ \E r \in GpPeers[me], off \in 0 .. GpSize :
              /\ Seen(me, addr) = Byte(r, 0, off)
              /\ globalize_memory(me, addr) = <<r, GpView[r][r] + off>>
<1> DEFINE r == CHOOSE x \in Touching(me, addr) : TRUE
<1>1. GpSize \in Nat \ {0} /\ addr \in Int /\ \A q \in GpPeers[me] : GpView[me][q] \in Nat
  <2>1. GpSize \in Nat \ {0} /\ GpWord \in Nat
    BY Layout, WordFacts
  <2>2. \A q \in GpPeers[me] : GpView[me][q] \in Nat \ {0}
    BY Layout
  <2>3. QED
    BY <2>1, <2>2
<1>2. CASE Touching(me, addr) = {}
  <2>1. Holding(me, addr) = {} /\ Ending(me, addr) = {}
    BY <1>2 DEF Touching
  <2>2. \A q \in GpPeers[me] : addr - GpView[me][q] \notin 0 .. GpSize
    BY <1>1, <2>1 DEF Holding, Ending
  <2>3. QED
    BY <1>2, <2>2, NoPeerFound DEF Seen
<1>3. CASE Touching(me, addr) # {}
  <2>1. r \in Touching(me, addr)
    BY <1>3
  <2>2. Seen(me, addr) = Byte(r, 0, addr - GpView[me][r])
    BY <1>3 DEF Seen
  <2> HIDE DEF r
  <2>3. r \in GpPeers[me] /\ addr - GpView[me][r] \in 0 .. GpSize
    BY <1>1, <2>1 DEF Touching, Holding, Ending
  <2>4. addr - GpView[me][r] = GpSize => Holding(me, addr) = {}
    BY <1>1, <2>1, <2>3 DEF Touching, Holding
  <2>5. globalize_memory(me, addr) = <<r, GpView[r][r] + (addr - GpView[me][r])>>
    BY <2>3, <2>4, PeerFound DEF Holding
  <2>6. QED
    BY <2>2, <2>3, <2>5
<1>4. QED
  BY <1>2, <1>3

-----------------------------------------------------------------------------
(* The inductive invariant                                                 *)

GptrType == [rank : GpRanks, raw : 0 .. GpWord - 1, heap : Nat, dyn : GpKinds, kind : GpKinds]

\* Byte ref exists, or is the end of a host segment, at the address raw; and a
\* pointer to it has the dynamic kind dyn.
Exists(ref, raw, dyn) ==
  /\ ref \in [owner : GpRanks, heap : Nat, off : Nat]
  /\ raw = BaseOf(ref) + ref.off
  /\ \/ ref.heap = 0 /\ dyn = "host" /\ ref.off <= GpSize
     \/ \E d \in GpDevices : d.rank = ref.owner /\ d.heap = ref.heap /\ dyn = d.kind /\ ref.off < d.size

\* Pointer g means ref.
Means(g, ref) ==
  /\ g \in GptrType
  /\ \/ ref = Nothing /\ g.rank = 0 /\ g.raw = 0 /\ g.heap = 0
     \/ g.rank = ref.owner /\ g.heap = ref.heap /\ g.kind \in {"any", g.dyn} /\ Exists(ref, g.raw, g.dyn)

GpInv ==
  /\ Means(gp, gpRef) /\ gpAt \in GpRanks
  /\ gpEarlier = <<gpEarlier[1], gpEarlier[2]>> /\ Means(gpEarlier[1], gpEarlier[2])

\* A device segment is named by its rank and heap.
LEMMA DeviceFacts ==
  ASSUME NEW d \in GpDevices
  PROVE  /\ d.rank \in GpRanks /\ d.heap \in Nat \ {0} /\ d.kind \in GpKinds \ {"any", "host"}
         /\ d.base \in Nat \ {0} /\ d.size \in Nat /\ d.base + d.size < GpWord /\ 2 * d.size < GpWord
         /\ \A e \in GpDevices : d.rank = e.rank /\ d.heap = e.heap => d = e
BY GlobalPtrAssumption DEF GpWord, GpKinds

\* Where the segment of a byte that exists lies.
LEMMA SegmentOf ==
  ASSUME NEW ref, NEW raw, NEW dyn, Exists(ref, raw, dyn)
  PROVE  /\ ref \in [owner : GpRanks, heap : Nat, off : Nat] /\ raw = BaseOf(ref) + ref.off
         /\ BaseOf(ref) \in Nat \ {0} /\ SizeOf(ref) \in Nat /\ ref.off <= SizeOf(ref)
         /\ BaseOf(ref) + SizeOf(ref) < GpWord /\ 2 * SizeOf(ref) < GpWord
         /\ dyn \in GpKinds \ {"any"} /\ (dyn = "host" <=> ref.heap = 0)
         /\ ref.heap = 0 => BaseOf(ref) = GpView[ref.owner][ref.owner] /\ SizeOf(ref) = GpSize
         /\ ref.heap # 0 => ref.off < SizeOf(ref) /\ \E d \in GpDevices :
              /\ d.rank = ref.owner /\ d.heap = ref.heap /\ dyn = d.kind
              /\ BaseOf(ref) = d.base /\ SizeOf(ref) = d.size
         /\ raw \in 1 .. GpWord - 1
<1>1. ref \in [owner : GpRanks, heap : Nat, off : Nat] /\ raw = BaseOf(ref) + ref.off
  BY DEF Exists
<1>2. GpWord \in Nat /\ ref.off \in Nat /\ ref.owner \in GpRanks
  BY <1>1, WordFacts
<1>3. CASE ref.heap = 0
  <2>1. dyn = "host" /\ ref.off <= GpSize
    BY <1>3, DeviceFacts DEF Exists
  <2>2. BaseOf(ref) = GpView[ref.owner][ref.owner] /\ SizeOf(ref) = GpSize
    BY <1>3 DEF BaseOf, SizeOf
  <2>3. ref.owner \in GpPeers[ref.owner] /\ GpSize \in Nat /\ 2 * GpSize < GpWord
    BY <1>2, Layout
  <2>4. GpView[ref.owner][ref.owner] \in Nat \ {0} /\ GpView[ref.owner][ref.owner] + GpSize < GpWord
    BY <1>2, <2>3, Layout
  <2>5. raw \in 1 .. GpWord - 1
    BY <1>1, <1>2, <2>1, <2>2, <2>3, <2>4
  <2>6. dyn \in GpKinds \ {"any"}
    BY <2>1 DEF GpKinds
  <2>7. QED
    BY <1>1, <1>3, <2>1, <2>2, <2>3, <2>4, <2>5, <2>6
<1>4. CASE ref.heap # 0
  <2>1. PICK d \in GpDevices : d.rank = ref.owner /\ d.heap = ref.heap /\ dyn = d.kind /\ ref.off < d.size
    BY <1>4 DEF Exists
  <2>2. \A e \in GpDevices : e.rank = ref.owner /\ e.heap = ref.heap => e = d
    BY <2>1, DeviceFacts
  <2>3. (CHOOSE e \in GpDevices : e.rank = ref.owner /\ e.heap = ref.heap) = d
    BY <2>1, <2>2
  <2>4. BaseOf(ref) = d.base /\ SizeOf(ref) = d.size
    BY <1>4, <2>3 DEF BaseOf, SizeOf
  <2>5. /\ d.kind \in GpKinds \ {"any", "host"} /\ d.base \in Nat \ {0} /\ d.size \in Nat
        /\ d.base + d.size < GpWord /\ 2 * d.size < GpWord
    BY DeviceFacts
  <2>6. raw \in 1 .. GpWord - 1 /\ ref.off <= d.size
    BY <1>1, <1>2, <2>1, <2>4, <2>5
  <2>7. QED
    BY <1>1, <1>4, <2>1, <2>4, <2>5, <2>6
<1>5. QED
  BY <1>3, <1>4

\* Arithmetic that keeps to the segment.
LEMMA MovedWithin ==
  ASSUME NEW ref, NEW raw, NEW dyn, Exists(ref, raw, dyn), NEW n \in Int,
         ref.off + n \in 0 .. SizeOf(ref) - 1
  PROVE  Addr(raw + n) \in 0 .. GpWord - 1 /\ Exists([ref EXCEPT !.off = @ + n], Addr(raw + n), dyn)
<1> DEFINE new == [ref EXCEPT !.off = @ + n]
<1>1. /\ ref \in [owner : GpRanks, heap : Nat, off : Nat] /\ raw = BaseOf(ref) + ref.off
      /\ BaseOf(ref) \in Nat \ {0} /\ SizeOf(ref) \in Nat /\ BaseOf(ref) + SizeOf(ref) < GpWord /\ GpWord \in Nat
  BY SegmentOf, WordFacts
<1>2. new.owner = ref.owner /\ new.heap = ref.heap /\ new.off = ref.off + n /\ ref.off + n \in Nat
  BY <1>1
<1>3. new \in [owner : GpRanks, heap : Nat, off : Nat]
  BY <1>1, <1>2
<1> HIDE DEF new
<1>4. BaseOf(new) = BaseOf(ref)
  BY <1>2 DEF BaseOf
<1>5. raw + n = BaseOf(new) + new.off /\ raw + n \in 0 .. GpWord - 1
  BY <1>1, <1>2, <1>4
<1>6. Addr(raw + n) = raw + n
  BY <1>5, AddrOf
<1>7. \/ new.heap = 0 /\ dyn = "host" /\ new.off <= GpSize
      \/ \E d \in GpDevices : d.rank = new.owner /\ d.heap = new.heap /\ dyn = d.kind /\ new.off < d.size
  <2>1. CASE ref.heap = 0
    <3>1. SizeOf(ref) = GpSize /\ dyn = "host"
      BY <2>1, SegmentOf
    <3>2. QED
      BY <1>1, <1>2, <2>1, <3>1
  <2>2. CASE ref.heap # 0
    <3>1. PICK d \in GpDevices : d.rank = ref.owner /\ d.heap = ref.heap /\ dyn = d.kind /\ SizeOf(ref) = d.size
      BY <2>2, SegmentOf
    <3>2. new.off < d.size
      BY <1>1, <1>2, <3>1
    <3>3. QED
      BY <1>2, <3>1, <3>2
  <2>3. QED
    BY <2>1, <2>2
<1>8. Exists(new, Addr(raw + n), dyn)
  BY <1>3, <1>5, <1>6, <1>7 DEF Exists
<1>9. QED
  BY <1>5, <1>6, <1>8 DEF new

\* Null pointers, of any kind.
LEMMA NullMeansNothing ==
  /\ \A k \in GpKinds : Means(NullGptr(k), Nothing)
  /\ \A g, ref : Means(g, ref) => (is_null(g) <=> ref = Nothing)
<1>1. 0 \in GpRanks /\ 0 \in 0 .. GpWord - 1 /\ 0 \in Nat
  BY Layout, WordFacts
<1>2. \A k \in GpKinds : Means(NullGptr(k), Nothing)
  BY <1>1 DEF Means, NullGptr, Gptr, GptrType
<1>3. ASSUME NEW g, NEW ref, Means(g, ref)
      PROVE  is_null(g) <=> ref = Nothing
  <2>1. CASE ref = Nothing /\ g.rank = 0 /\ g.raw = 0 /\ g.heap = 0
    BY <2>1 DEF is_null
  <2>2. CASE Exists(ref, g.raw, g.dyn)
    <3>1. g.raw \in 1 .. GpWord - 1 /\ ref.off \in Nat /\ GpWord \in Nat
      BY <2>2, SegmentOf, WordFacts
    <3>2. g.raw # 0 /\ ref.off # -1
      BY <3>1
    <3>3. Nothing.off = -1
      BY DEF Nothing
    <3>4. QED
      BY <3>2, <3>3 DEF is_null
  <2>3. QED
    BY <1>3, <2>1, <2>2 DEF Means
<1>4. QED
  BY <1>2, <1>3

-----------------------------------------------------------------------------
(* The steps                                                               *)

\* What a step that makes pointer g of ref has to show.
LEMMA BecomesKeeps ==
  ASSUME GpInv, NEW g, NEW at \in GpRanks, NEW ref, Becomes(g, at, ref), Means(g, ref), UNCHANGED gpEarlier
  PROVE  GpInv'
BY DEF GpInv, Becomes, Means, Exists, GptrType, GpKinds, BaseOf, Nothing

\* to_global_ptr and try_global_ptr: the address becomes what the tables find there.
LEMMA Globalized ==
  ASSUME NEW me \in GpRanks, NEW a \in 0 .. GpWord - 1
  PROVE  LET where == IF a = 0 THEN Nowhere ELSE globalize_memory(me, a)
         IN  Means(Gptr(where[1], where[2], 0, "host", "host"), Seen(me, a))
<1> DEFINE where == IF a = 0 THEN Nowhere ELSE globalize_memory(me, a)
           g == Gptr(where[1], where[2], 0, "host", "host")
<1>1. CASE Seen(me, a) = Nothing /\ globalize_memory(me, a) = Nowhere
  <2>1. where = Nowhere
    BY <1>1
  <2>2. g = NullGptr("host")
    BY <2>1 DEF Nowhere, NullGptr
  <2>3. "host" \in GpKinds
    BY DEF GpKinds
  <2>4. QED
    BY <1>1, <2>2, <2>3, NullMeansNothing
<1>2. ASSUME NEW r \in GpPeers[me], NEW off \in 0 .. GpSize, Seen(me, a) = Byte(r, 0, off),
             globalize_memory(me, a) = <<r, GpView[r][r] + off>>
      PROVE  Means(g, Seen(me, a))
  <2>1. a # 0
    <3>1. SUFFICES ASSUME a = 0
                   PROVE  FALSE
      OBVIOUS
    <3>2. \A q \in GpPeers[me] : a - GpView[me][q] \notin 0 .. GpSize
      <4> TAKE q \in GpPeers[me]
      <4>1. GpView[me][q] \in Nat \ {0} /\ GpSize \in Nat
        BY Layout
      <4>2. QED
        BY <3>1, <4>1
    <3>3. globalize_memory(me, a) = Nowhere
      BY <3>2, NoPeerFound
    <3>4. GpView[r][r] + off = 0
      BY <1>2, <3>3 DEF Nowhere
    <3>5. GpView[r][r] + off \in 1 .. GpWord - 1 /\ GpWord \in Nat
      BY Translated, WordFacts
    <3>6. QED
      BY <3>4, <3>5
  <2>2. where = <<r, GpView[r][r] + off>>
    BY <1>2, <2>1
  <2>3. r \in GpRanks /\ GpSize \in Nat /\ GpWord \in Nat
    BY Layout, WordFacts
  <2>4. GpView[r][r] + off \in 0 .. GpWord - 1
    BY <2>3, Translated
  <2> DEFINE ref == Byte(r, 0, off)
             raw == GpView[r][r] + off
  <2>5. g = [rank |-> r, raw |-> raw, heap |-> 0, dyn |-> "host", kind |-> "host"]
    BY <2>2 DEF Gptr
  <2>6. ref = [owner |-> r, heap |-> 0, off |-> off] /\ BaseOf(ref) = GpView[r][r]
    BY DEF Byte, BaseOf
  <2>7. off \in Nat /\ off <= GpSize
    BY <2>3
  <2> HIDE DEF g, ref, raw
  <2>8. Exists(ref, raw, "host")
    BY <2>3, <2>6, <2>7 DEF Exists, raw
  <2>9. g \in GptrType
    BY <2>3, <2>4, <2>5 DEF GptrType, GpKinds, raw
  <2>10. Means(g, ref)
    BY <2>5, <2>6, <2>8, <2>9 DEF Means
  <2>11. QED
    BY <1>2, <2>10 DEF ref
<1>3. Means(g, Seen(me, a))
  BY <1>1, <1>2, SeenIsFound
<1>4. QED
  BY <1>3

LEMMA ToGlobalKeeps ==
  ASSUME GpInv, NEW me \in GpRanks, NEW a \in GpAddresses, to_global_ptr(me, a) \/ try_global_ptr(me, a)
  PROVE  GpInv'
<1> DEFINE where == IF a = 0 THEN Nowhere ELSE globalize_memory(me, a)
           g == Gptr(where[1], where[2], 0, "host", "host")
<1>1. a \in 0 .. GpWord - 1
  BY Layout
<1>2. Means(g, Seen(me, a))
  BY <1>1, Globalized
<1>3. a = 0 => g = NullGptr("host")
  BY DEF Nowhere, NullGptr
<1>4. Becomes(g, me, Seen(me, a)) /\ UNCHANGED gpEarlier
  BY <1>3 DEF to_global_ptr, try_global_ptr
<1>5. QED
  BY <1>2, <1>4, BecomesKeeps

LEMMA DeviceKeeps ==
  ASSUME GpInv, NEW d \in GpDevices, NEW off \in 0 .. d.size - 1, device_to_global_ptr(d, off)
  PROVE  GpInv'
<1> DEFINE g == Gptr(d.rank, d.base + off, d.heap, d.kind, d.kind)
           ref == Byte(d.rank, d.heap, off)
<1>1. /\ d.rank \in GpRanks /\ d.heap \in Nat \ {0} /\ d.kind \in GpKinds \ {"any", "host"}
      /\ d.base \in Nat \ {0} /\ d.size \in Nat /\ d.base + d.size < GpWord /\ GpWord \in Nat
      /\ \A e \in GpDevices : d.rank = e.rank /\ d.heap = e.heap => d = e
  BY DeviceFacts, WordFacts
<1>2. off \in Nat /\ off < d.size /\ d.base + off \in 0 .. GpWord - 1
  BY <1>1
<1>3. ref = [owner |-> d.rank, heap |-> d.heap, off |-> off]
  BY DEF Byte
<1>4. g = [rank |-> d.rank, raw |-> d.base + off, heap |-> d.heap, dyn |-> d.kind, kind |-> d.kind]
  BY DEF Gptr
<1> HIDE DEF g, ref
<1>5. BaseOf(ref) = d.base
  <2>1. ref.owner = d.rank /\ ref.heap = d.heap
    BY <1>3
  <2>2. (CHOOSE e \in GpDevices : e.rank = ref.owner /\ e.heap = ref.heap) = d
    BY <1>1, <2>1
  <2>3. QED
    BY <1>1, <2>1, <2>2 DEF BaseOf
<1>6. Exists(ref, d.base + off, d.kind)
  BY <1>1, <1>2, <1>3, <1>5 DEF Exists
<1>7. g \in GptrType
  BY <1>1, <1>2, <1>4 DEF GptrType
<1>8. Means(g, ref)
  BY <1>3, <1>4, <1>6, <1>7 DEF Means
<1>9. Becomes(g, d.rank, ref) /\ UNCHANGED gpEarlier
  BY DEF device_to_global_ptr, g, ref
<1>10. QED
  BY <1>1, <1>8, <1>9, BecomesKeeps

\* operator+= and its kin, and offsets of members.
LEMMA AdvanceKeeps ==
  ASSUME GpInv, NEW n \in Int, ~ is_null(gp), gpRef.off + n \in 0 .. SizeOf(gpRef) - 1,
         Becomes([gp EXCEPT !.raw = Addr(@ + n)], gpAt, [gpRef EXCEPT !.off = @ + n]), UNCHANGED gpEarlier
  PROVE  GpInv'
<1> DEFINE g == [gp EXCEPT !.raw = Addr(@ + n)]
           ref == [gpRef EXCEPT !.off = @ + n]
<1>1. Means(gp, gpRef) /\ gpAt \in GpRanks
  BY DEF GpInv
<1>2. gpRef # Nothing
  BY <1>1, NullMeansNothing
<1>3. /\ gp \in GptrType /\ gp.rank = gpRef.owner /\ gp.heap = gpRef.heap /\ gp.kind \in {"any", gp.dyn}
      /\ Exists(gpRef, gp.raw, gp.dyn)
  BY <1>1, <1>2 DEF Means
<1>4. Addr(gp.raw + n) \in 0 .. GpWord - 1 /\ Exists(ref, Addr(gp.raw + n), gp.dyn)
  BY <1>3, MovedWithin
<1>5. g \in GptrType /\ g.rank = gp.rank /\ g.heap = gp.heap /\ g.kind = gp.kind /\ g.dyn = gp.dyn
      /\ g.raw = Addr(gp.raw + n)
  BY <1>3, <1>4 DEF GptrType
<1>6. ref.owner = gpRef.owner /\ ref.heap = gpRef.heap
  BY <1>3 DEF Exists
<1> HIDE DEF g, ref
<1>7. Means(g, ref)
  BY <1>3, <1>4, <1>5, <1>6 DEF Means
<1>8. QED
  BY <1>1, <1>7, BecomesKeeps DEF g, ref

\* Casts of the memory kind.
LEMMA CastKeeps ==
  ASSUME GpInv, NEW k \in GpKinds, gpRef = Nothing \/ k \in {"any", gp.dyn},
         Becomes([gp EXCEPT !.kind = k], gpAt, gpRef), UNCHANGED gpEarlier
  PROVE  GpInv'
<1> DEFINE g == [gp EXCEPT !.kind = k]
<1>1. Means(gp, gpRef) /\ gpAt \in GpRanks /\ gp \in GptrType
  BY DEF GpInv, Means
<1>2. g \in GptrType /\ g.rank = gp.rank /\ g.heap = gp.heap /\ g.kind = k /\ g.dyn = gp.dyn /\ g.raw = gp.raw
  BY <1>1 DEF GptrType
<1> HIDE DEF g
<1>3. Means(g, gpRef)
  <2>1. CASE gpRef = Nothing
    <3>1. is_null(gp) /\ gp.rank = 0
      <4>1. is_null(gp)
        BY <1>1, <2>1, NullMeansNothing
      <4>2. Exists(gpRef, gp.raw, gp.dyn) => gp.raw # 0
        <5>1. Exists(gpRef, gp.raw, gp.dyn) => gp.raw \in 1 .. GpWord - 1
          BY SegmentOf
        <5>2. QED
          BY <5>1, WordFacts
      <4>3. QED
        BY <1>1, <4>1, <4>2 DEF Means, is_null
    <3>2. QED
      BY <1>2, <2>1, <3>1 DEF Means, is_null
  <2>2. CASE gpRef # Nothing
    BY <1>1, <1>2, <2>2 DEF Means
  <2>3. QED
    BY <2>1, <2>2
<1>4. QED
  BY <1>1, <1>3, BecomesKeeps DEF g

LEMMA GpStep ==
  GpInv /\ [GpNext]_gpVars => GpInv'
<1> SUFFICES ASSUME GpInv, [GpNext]_gpVars
             PROVE  GpInv'
  OBVIOUS
<1>1. Means(gp, gpRef) /\ gpAt \in GpRanks /\ gp \in GptrType
  BY DEF GpInv, Means
<1>2. gp.kind \in GpKinds /\ gp.dyn \in GpKinds /\ "any" \in GpKinds
  BY <1>1 DEF GptrType, GpKinds
<1>3. CASE \E me \in GpRanks, a \in GpAddresses : to_global_ptr(me, a) \/ try_global_ptr(me, a)
  BY <1>3, ToGlobalKeeps
<1>4. CASE \E d \in GpDevices : \E n \in 0 .. d.size - 1 : device_to_global_ptr(d, n)
  BY <1>4, DeviceKeeps
<1>5. ASSUME NEW n \in {-2, -1, 1, 2}, Advance(n)
      PROVE  GpInv'
  <2>1. n * GpElement \in Int
    BY Layout
  <2>2. /\ ~ is_null(gp) /\ gpRef.off + n * GpElement \in 0 .. SizeOf(gpRef) - 1 /\ UNCHANGED gpEarlier
        /\ Becomes([gp EXCEPT !.raw = Addr(@ + n * GpElement)], gpAt, [gpRef EXCEPT !.off = @ + n * GpElement])
    BY <1>5 DEF Advance
  <2>3. QED
    BY <2>1, <2>2, AdvanceKeeps
<1>6. ASSUME NEW n \in 1 .. GpSize, OffsetBy(n)
      PROVE  GpInv'
  <2>1. n \in Int
    BY Layout
  <2>2. /\ ~ is_null(gp) /\ gpRef.off + n \in 0 .. SizeOf(gpRef) - 1 /\ UNCHANGED gpEarlier
        /\ Becomes([gp EXCEPT !.raw = Addr(@ + n)], gpAt, [gpRef EXCEPT !.off = @ + n])
    BY <1>6 DEF OffsetBy
  <2>3. QED
    BY <2>1, <2>2, AdvanceKeeps
<1>7. CASE to_any
  BY <1>2, <1>7, CastKeeps DEF to_any
<1>8. ASSUME NEW k \in GpKinds, static_kind_cast(k)
      PROVE  GpInv'
  <2>1. gpRef = Nothing \/ k \in {"any", gp.dyn}
    BY <1>1, <1>8, NullMeansNothing DEF static_kind_cast
  <2>2. QED
    BY <1>8, <2>1, CastKeeps DEF static_kind_cast
<1>9. ASSUME NEW k \in GpKinds, dynamic_kind_cast(k)
      PROVE  GpInv'
  <2>1. CASE k = "any" \/ k = dynamic_kind(gp)
    <3>1. Becomes([gp EXCEPT !.kind = k], gpAt, gpRef) /\ UNCHANGED gpEarlier
      BY <1>9, <2>1 DEF dynamic_kind_cast
    <3>2. gpRef = Nothing \/ k \in {"any", gp.dyn}
      BY <1>1, <2>1 DEF Means, dynamic_kind
    <3>3. QED
      BY <3>1, <3>2, CastKeeps
  <2>2. CASE ~ (k = "any" \/ k = dynamic_kind(gp))
    <3>1. Becomes(NullGptr(k), gpAt, Nothing) /\ UNCHANGED gpEarlier
      BY <1>9, <2>2 DEF dynamic_kind_cast
    <3>2. QED
      BY <1>1, <3>1, NullMeansNothing, BecomesKeeps
  <2>3. QED
    BY <2>1, <2>2
<1>10. ASSUME NEW r \in GpRanks, Travel(r)
       PROVE  GpInv'
  BY <1>1, <1>10, BecomesKeeps DEF Travel
<1>11. CASE Remember
  <2>1. gp' = gp /\ gpRef' = gpRef /\ gpAt' = gpAt /\ gpEarlier' = <<gp, gpRef>>
    BY <1>11 DEF Remember, Becomes
  <2>2. gpEarlier'[1] = gp /\ gpEarlier'[2] = gpRef
    BY <2>1
  <2>3. QED
    BY <1>1, <2>1, <2>2 DEF GpInv
<1>12. CASE UNCHANGED gpVars
  BY <1>12 DEF GpInv, gpVars
<1>13. QED
  BY <1>3, <1>4, <1>5, <1>6, <1>7, <1>8, <1>9, <1>10, <1>11, <1>12 DEF GpNext

-----------------------------------------------------------------------------
(* What the invariant says about a pointer                                 *)

\* What the fields of a pointer and of the byte it means have to do with each other.
LEMMA MeansFacts ==
  ASSUME NEW g, NEW ref, Means(g, ref)
  PROVE  /\ g.rank \in GpRanks /\ g.heap \in Nat /\ g.raw \in 0 .. GpWord - 1 /\ g.raw \in Nat
         /\ g.kind \in GpKinds
         /\ ref \in [owner : GpRanks, heap : Nat, off : Int] /\ ref.owner = g.rank /\ ref.heap = g.heap
         /\ ref = Nothing => g.raw = 0 /\ g.rank = 0 /\ g.heap = 0 /\ ref.off = -1
         /\ ref # Nothing => /\ Exists(ref, g.raw, g.dyn) /\ g.kind \in {"any", g.dyn}
                             /\ g.raw = BaseOf(ref) + ref.off /\ ref.off \in Nat /\ g.raw > 0
<1>1. g \in GptrType /\ GpWord \in Nat /\ 0 \in GpRanks
  BY Layout, WordFacts DEF Means
<1>2. g.rank \in GpRanks /\ g.heap \in Nat /\ g.raw \in 0 .. GpWord - 1 /\ g.raw \in Nat /\ g.kind \in GpKinds
  BY <1>1 DEF GptrType
<1>3. CASE ref = Nothing
  <2>1. is_null(g)
    BY <1>3, NullMeansNothing
  <2>2. ref.owner = 0 /\ ref.heap = 0 /\ ref.off = -1 /\ ref \in [owner : GpRanks, heap : Nat, off : Int]
    BY <1>1, <1>3 DEF Nothing
  <2>3. ~ Exists(ref, g.raw, g.dyn)
    <3>1. Exists(ref, g.raw, g.dyn) => ref.off \in Nat
      BY DEF Exists
    <3>2. QED
      BY <2>2, <3>1
  <2>4. QED
    BY <1>2, <1>3, <2>1, <2>2, <2>3 DEF Means, is_null
<1>4. CASE ref # Nothing
  <2>1. Exists(ref, g.raw, g.dyn) /\ g.kind \in {"any", g.dyn} /\ g.rank = ref.owner /\ g.heap = ref.heap
    BY <1>4 DEF Means
  <2>2. g.raw = BaseOf(ref) + ref.off /\ ref \in [owner : GpRanks, heap : Nat, off : Nat] /\ g.raw \in 1 .. GpWord - 1
    BY <2>1, SegmentOf
  <2>3. ref.off \in Nat /\ ref \in [owner : GpRanks, heap : Nat, off : Int] /\ g.raw > 0
    BY <1>1, <2>2
  <2>4. QED
    BY <1>2, <1>4, <2>1, <2>2, <2>3
<1>5. QED
  BY <1>3, <1>4

\* In one segment, addresses order as the bytes do, and null comes first.
LEMMA SameSegment ==
  ASSUME NEW g, NEW ref, Means(g, ref), NEW h, NEW ref2, Means(h, ref2),
         g.rank = h.rank, g.heap = h.heap
  PROVE  /\ g.raw = h.raw <=> ref.off = ref2.off
         /\ g.raw < h.raw <=> ref.off < ref2.off
         /\ ref # Nothing /\ ref2 # Nothing => g.raw - h.raw = ref.off - ref2.off
<1>1. g.raw \in Nat /\ h.raw \in Nat /\ ref.off \in Int /\ ref2.off \in Int
  BY MeansFacts
<1>2. CASE ref = Nothing \/ ref2 = Nothing
  <2>1. ref = Nothing => g.raw = 0 /\ ref.off = -1
    BY MeansFacts
  <2>2. ref2 = Nothing => h.raw = 0 /\ ref2.off = -1
    BY MeansFacts
  <2>3. ref # Nothing => g.raw > 0 /\ ref.off >= 0
    BY MeansFacts
  <2>4. ref2 # Nothing => h.raw > 0 /\ ref2.off >= 0
    BY MeansFacts
  <2>5. QED
    BY <1>1, <1>2, <2>1, <2>2, <2>3, <2>4
<1>3. CASE ref # Nothing /\ ref2 # Nothing
  <2>1. g.raw = BaseOf(ref) + ref.off /\ h.raw = BaseOf(ref2) + ref2.off
    BY <1>3, MeansFacts
  <2>2. ref.owner = ref2.owner /\ ref.heap = ref2.heap
    BY MeansFacts
  <2>3. BaseOf(ref) = BaseOf(ref2)
    BY <2>2 DEF BaseOf
  <2>4. BaseOf(ref) \in Nat
    BY <1>3, MeansFacts, SegmentOf
  <2>5. QED
    BY <1>1, <2>1, <2>3, <2>4
<1>4. QED
  BY <1>2, <1>3

\* The function objects, and operator ==.
LEMMA Ordered ==
  ASSUME NEW g, NEW ref, Means(g, ref), NEW h, NEW ref2, Means(h, ref2)
  PROVE  /\ equal(g, h) <=> ref = ref2
         /\ less(g, h) <=> Lexicographic(ref, ref2)
         /\ less_equal(g, h) <=> ~ less(h, g)
         /\ greater(g, h) <=> less(h, g)
         /\ greater_equal(g, h) <=> ~ less(g, h)
<1>1. /\ g.rank \in Nat /\ g.heap \in Nat /\ g.raw \in Nat /\ ref.owner = g.rank /\ ref.heap = g.heap
      /\ ref \in [owner : GpRanks, heap : Nat, off : Int]
  BY MeansFacts, Layout
<1>2. /\ h.rank \in Nat /\ h.heap \in Nat /\ h.raw \in Nat /\ ref2.owner = h.rank /\ ref2.heap = h.heap
      /\ ref2 \in [owner : GpRanks, heap : Nat, off : Int]
  BY MeansFacts, Layout
<1>3. g.rank = h.rank /\ g.heap = h.heap =>
        (g.raw = h.raw <=> ref.off = ref2.off) /\ (g.raw < h.raw <=> ref.off < ref2.off)
  BY SameSegment
<1>4. ref = ref2 <=> ref.owner = ref2.owner /\ ref.heap = ref2.heap /\ ref.off = ref2.off
  BY <1>1, <1>2
<1>5. equal(g, h) <=> ref = ref2
  BY <1>1, <1>2, <1>3, <1>4 DEF equal
<1>6. less(g, h) <=> Lexicographic(ref, ref2)
  BY <1>1, <1>2, <1>3 DEF less, Lexicographic
<1>7. less_equal(g, h) <=> ~ less(h, g)
  BY <1>1, <1>2 DEF less, less_equal
<1>8. greater(g, h) <=> less(h, g)
  BY <1>1, <1>2 DEF less, greater
<1>9. greater_equal(g, h) <=> ~ less(g, h)
  BY <1>1, <1>2 DEF less, greater_equal
<1>10. QED
  BY <1>5, <1>6, <1>7, <1>8, <1>9

\* local() and the way back, on any process.
LEMMA RoundTrip ==
  ASSUME NEW g, NEW ref, Means(g, ref), NEW me \in GpRanks
  PROVE  /\ LocalRoundTrip(me, g, ref)
         /\ is_local(me, g) <=> ref.heap = 0 /\ (ref = Nothing \/ ref.owner \in GpPeers[me])
<1>1. CASE ref = Nothing
  <2>1. g.raw = 0 /\ g.heap = 0 /\ ref.heap = 0
    BY <1>1, MeansFacts
  <2>2. QED
    BY <1>1, <2>1 DEF LocalRoundTrip, is_local
<1>2. CASE ref # Nothing
  <2>1. /\ Exists(ref, g.raw, g.dyn) /\ g.kind \in {"any", g.dyn} /\ g.rank \in GpRanks
        /\ ref.owner = g.rank /\ ref.heap = g.heap /\ g.raw = BaseOf(ref) + ref.off /\ ref.off \in Nat
        /\ g.raw # 0
    BY <1>2, MeansFacts
  <2>2. (g.kind = "host" \/ g.heap = 0) <=> ref.heap = 0
    BY <2>1, SegmentOf
  <2>3. gp_rank_is_local(me, g.rank) <=> ref.owner \in GpPeers[me]
    BY <2>1, LocalRanks
  <2>4. is_local(me, g) <=> ref.heap = 0 /\ ref.owner \in GpPeers[me]
    BY <2>1, <2>2, <2>3 DEF is_local
  <2>5. ASSUME ref.heap = 0, ref.owner \in GpPeers[me]
        PROVE  LET addr == localize_memory(me, g.rank, g.raw)
               IN  /\ addr = GpView[me][ref.owner] + ref.off
                   /\ globalize_memory_nonnull(me, g.rank, addr) = g.raw
                   /\ ref.off < GpSize => globalize_memory(me, addr) = <<g.rank, g.raw>>
    <3> DEFINE r == ref.owner
               off == ref.off
               addr == localize_memory(me, g.rank, g.raw)
    <3>1. BaseOf(ref) = GpView[r][r] /\ off <= GpSize /\ GpSize \in Nat /\ GpWord \in Nat
      BY <2>1, <2>5, SegmentOf, Layout, WordFacts
    <3>2. r \in GpPeers[me] /\ off \in 0 .. GpSize /\ g.rank = r /\ g.raw = GpView[r][r] + off
      BY <2>1, <2>5, <3>1
    <3>3. addr = Addr((GpView[r][r] + off) + LocalMinusRemote(me, r))
      BY <2>1, <3>2 DEF localize_memory
    <3>4. off \in Nat /\ GpView[me][r] \in Nat
      BY <2>1, <2>5, Layout
    <3> HIDE DEF r, off, addr
    <3>5. addr = GpView[me][r] + off /\ GpView[me][r] + off \in 0 .. GpWord - 1
      <4>1. addr = GpView[me][r] + off /\ GpView[me][r] + off \in 1 .. GpWord - 1
        BY <3>2, <3>3, Translated
      <4>2. QED
        BY <3>1, <4>1
    <3>6. globalize_memory_nonnull(me, g.rank, addr) = g.raw
      BY <3>2, <3>5, Translated DEF globalize_memory_nonnull
    <3>7. ASSUME off < GpSize
          PROVE  globalize_memory(me, addr) = <<g.rank, g.raw>>
      <4>1. addr - GpView[me][r] = off /\ off # GpSize
        BY <3>1, <3>4, <3>5, <3>7
      <4>2. addr \in 0 .. GpWord - 1 /\ addr - GpView[me][r] \in 0 .. GpSize /\ addr - GpView[me][r] # GpSize
        BY <3>2, <3>5, <4>1
      <4>3. globalize_memory(me, addr) = <<r, GpView[r][r] + (addr - GpView[me][r])>>
        BY <3>2, <4>2, PeerFound
      <4>4. QED
        BY <3>2, <4>1, <4>3
    <3>8. QED
      BY <3>5, <3>6, <3>7 DEF r, off, addr
  <2>6. QED
    BY <1>2, <2>4, <2>5 DEF LocalRoundTrip
<1>3. QED
  BY <1>1, <1>2

\* validate_global_ptr, with the bounds known.
LEMMA Validated ==
  ASSUME NEW g, NEW ref, Means(g, ref)
  PROVE  validate_global_ptr(g, TRUE, TRUE) <=>
           ref = Nothing \/ (ref.off < SizeOf(ref) /\ g.raw % GpElement = 0)
<1>1. CASE ref = Nothing
  <2>1. g.raw = 0 /\ g.heap = 0 /\ g.rank = 0
    BY <1>1, MeansFacts
  <2>2. QED
    BY <1>1, <2>1 DEF validate_global_ptr
<1>2. CASE ref # Nothing
  <2>1. /\ Exists(ref, g.raw, g.dyn) /\ g.kind \in {"any", g.dyn} /\ g.rank \in GpRanks
        /\ ref.owner = g.rank /\ ref.heap = g.heap /\ g.raw = BaseOf(ref) + ref.off /\ ref.off \in Nat
        /\ g.raw # 0
    BY <1>2, MeansFacts
  <2>2. /\ BaseOf(ref) \in Nat /\ SizeOf(ref) \in Nat /\ g.dyn # "any" /\ (g.dyn = "host" <=> g.heap = 0)
    BY <2>1, SegmentOf
  <2>3. Bounds(g) = {<<BaseOf(ref), SizeOf(ref)>>}
    <3>1. CASE g.heap = 0
      BY <2>1, <3>1 DEF Bounds, BaseOf, SizeOf
    <3>2. CASE g.heap # 0
      <4>1. PICK d \in GpDevices : /\ d.rank = ref.owner /\ d.heap = ref.heap /\ g.dyn = d.kind
                                   /\ BaseOf(ref) = d.base /\ SizeOf(ref) = d.size
        BY <2>1, <3>2, SegmentOf
      <4>2. \A e \in GpDevices : e.rank = g.rank /\ e.heap = g.heap => e = d
        BY <2>1, <4>1, DeviceFacts
      <4>3. {e \in GpDevices : e.rank = g.rank /\ e.heap = g.heap /\ e.kind = g.dyn} = {d}
        BY <2>1, <4>1, <4>2
      <4>4. QED
        BY <3>2, <4>1, <4>3 DEF Bounds
    <3>3. QED
      BY <3>1, <3>2
  <2>4. (\E b \in Bounds(g) : g.raw >= b[1] /\ g.raw <= b[1] + b[2] - 1) <=> ref.off < SizeOf(ref)
    BY <2>1, <2>2, <2>3
  <2>5. validate_global_ptr(g, TRUE, TRUE) <=>
          /\ \E b \in Bounds(g) : g.raw >= b[1] /\ g.raw <= b[1] + b[2] - 1
          /\ g.raw % GpElement = 0
    BY <2>1, <2>2 DEF validate_global_ptr
  <2>6. QED
    BY <1>2, <2>4, <2>5
<1>3. QED
  BY <1>1, <1>2

\* operator- in one segment, and operator <.
LEMMA Subtracted ==
  ASSUME NEW g, NEW ref, Means(g, ref), NEW h, NEW ref2, Means(h, ref2),
         ref # Nothing, ref2 # Nothing, ref.owner = ref2.owner, ref.heap = ref2.heap
  PROVE  /\ minus(g, h) = (ref.off - ref2.off) \div GpElement
         /\ before(g, h) <=> less(g, h)
<1>1. /\ g.rank = h.rank /\ g.heap = h.heap /\ g.rank \in Nat /\ g.heap \in Nat
      /\ g.raw \in Nat /\ h.raw \in Nat
      /\ Exists(ref, g.raw, g.dyn) /\ Exists(ref2, h.raw, h.dyn)
  <2>1. g.rank = ref.owner /\ g.heap = ref.heap /\ g.rank \in GpRanks /\ g.heap \in Nat /\ g.raw \in Nat
        /\ Exists(ref, g.raw, g.dyn)
    BY MeansFacts
  <2>2. h.rank = ref2.owner /\ h.heap = ref2.heap /\ h.raw \in Nat /\ Exists(ref2, h.raw, h.dyn)
    BY MeansFacts
  <2>3. QED
    BY <2>1, <2>2, Layout
<1>2. g.raw - h.raw = ref.off - ref2.off
  BY <1>1, SameSegment
<1>3. SizeOf(ref2) = SizeOf(ref)
  BY DEF SizeOf
<1>4. ref.off \in Nat /\ ref2.off \in Nat /\ ref.off <= SizeOf(ref) /\ ref2.off <= SizeOf(ref)
  <2>1. ref.off \in Nat /\ ref.off <= SizeOf(ref)
    BY <1>1, SegmentOf
  <2>2. ref2.off \in Nat /\ ref2.off <= SizeOf(ref2)
    BY <1>1, SegmentOf
  <2>3. QED
    BY <1>3, <2>1, <2>2
<1>5. SizeOf(ref) \in Nat /\ 2 * SizeOf(ref) < GpWord /\ GpWord \in Nat
  BY <1>1, SegmentOf, WordFacts
<1>6. PICK n \in Int : n = g.raw - h.raw
  BY <1>1
<1>7. 2 * n < GpWord /\ -GpWord < 2 * n
  BY <1>2, <1>4, <1>5, <1>6
<1>8. Signed(Addr(n), GpWord) = n
  BY <1>7, DifferenceFits
<1>9. minus(g, h) = (ref.off - ref2.off) \div GpElement
  BY <1>2, <1>6, <1>8 DEF minus
<1>10. before(g, h) <=> less(g, h)
  BY <1>1 DEF before, less
<1>11. QED
  BY <1>9, <1>10

LEMMA GpStart ==
  GpInit => GpInv
<1> SUFFICES ASSUME GpInit
             PROVE  GpInv
  OBVIOUS
<1>1. "host" \in GpKinds /\ 0 \in GpRanks
  BY Layout DEF GpKinds
<1>2. Means(NullGptr("host"), Nothing)
  BY <1>1, NullMeansNothing
<1>3. gp = NullGptr("host") /\ gpRef = Nothing /\ gpAt = 0 /\ gpEarlier = <<NullGptr("host"), Nothing>>
  BY DEF GpInit
<1>4. gpEarlier[1] = NullGptr("host") /\ gpEarlier[2] = Nothing
  BY <1>3
<1>5. QED
  BY <1>1, <1>2, <1>3, <1>4 DEF GpInv

LEMMA GpInvExact ==
  GpInv => PointersExact
<1> SUFFICES ASSUME GpInv
             PROVE  PointersExact
  OBVIOUS
<1> DEFINE g == gp
           ref == gpRef
           h == gpEarlier[1]
           ref2 == gpEarlier[2]
<1>1. Means(g, ref) /\ Means(h, ref2) /\ gpAt \in GpRanks
  BY DEF GpInv
<1> HIDE DEF g, ref, h, ref2
<1>2. NamesItsByte(g, ref)
  <2>1. /\ ref = Nothing => g.raw = 0 /\ g.rank = 0 /\ g.heap = 0
        /\ ref # Nothing => g.raw = BaseOf(ref) + ref.off
        /\ ref.owner = g.rank /\ ref.heap = g.heap
    BY <1>1, MeansFacts
  <2>2. QED
    BY <2>1 DEF NamesItsByte, is_null
<1>3. \A me \in GpRanks : LocalRoundTrip(me, g, ref)
  BY <1>1, RoundTrip
<1>4. is_local(gpAt, g) <=> ref.heap = 0 /\ (ref = Nothing \/ ref.owner \in GpPeers[gpAt])
  BY <1>1, RoundTrip
<1>5. validate_global_ptr(g, TRUE, TRUE) <=>
        ref = Nothing \/ (ref.off < SizeOf(ref) /\ g.raw % GpElement = 0)
  BY <1>1, Validated
<1>6. /\ equal(g, h) <=> ref = ref2
      /\ less(g, h) <=> Lexicographic(ref, ref2)
      /\ less_equal(g, h) <=> ~ less(h, g)
      /\ greater(g, h) <=> less(h, g)
      /\ greater_equal(g, h) <=> ~ less(g, h)
  BY <1>1, Ordered
<1>7. ref # Nothing /\ ref2 # Nothing /\ ref.owner = ref2.owner /\ ref.heap = ref2.heap
        => minus(g, h) = (ref.off - ref2.off) \div GpElement /\ (before(g, h) <=> less(g, h))
  BY <1>1, Subtracted
<1>8. decode(encode_lo(g.raw), encode_hi(g.raw)) = g.raw
  <2>1. g.raw \in 0 .. GpWord - 1
    BY <1>1, MeansFacts
  <2>2. QED
    BY <2>1, HalvesMeet
<1>9. QED
  BY <1>2, <1>3, <1>4, <1>5, <1>6, <1>7, <1>8 DEF PointersExact, g, ref, h, ref2

(* Whatever addresses, arithmetic, casts and messages a pointer goes       *)
(* through, its fields name a byte of an existing segment at the owner's   *)
(* address, or all of them are null, and its kind is the segment's.        *)
THEOREM PointerInvariant == GpSpec => []GpInv
BY GpStart, GpStep, PTL DEF GpSpec

(* PointersExact, for any number of ranks, any partition into local teams, *)
(* any mapping of their segments, any device segments and any width of the *)
(* word: the tables of init_localheap_tables and the search in them, the   *)
(* differences modulo the word, rank_is_local's single comparison,         *)
(* validate_global_ptr, the function objects, operator- and the two halves *)
(* of an address in an active message are right for every pointer that the *)
(* class can make.                                                         *)
THEOREM PointersStayExact == GpSpec => []PointersExact
BY PointerInvariant, GpInvExact, PTL

-----------------------------------------------------------------------------
(* The sum of the lengths of blocks                                        *)

OneOf(s) == CHOOSE x \in s : TRUE
LenSum(B) == MapThenSumSet(LAMBDA b : b.len, B)

\* F has at every subset of D the sum of the lengths in it.
Sums(F, D) == \A s \in SUBSET D : F[s] = IF s = {} THEN 0 ELSE OneOf(s).len + F[s \ {OneOf(s)}]
FirstSums(F, D, n) ==
  /\ F = [s \in SUBSET D |-> F[s]]
  /\ \A s \in SUBSET D : Cardinality(s) <= n =>
       F[s] = IF s = {} THEN 0 ELSE OneOf(s).len + F[s \ {OneOf(s)}]
SumStep(F, D) == [s \in SUBSET D |-> IF s = {} THEN 0 ELSE OneOf(s).len + F[s \ {OneOf(s)}]]

\* A subset of a finite set, and what is left of it without one element.
LEMMA Smaller ==
  ASSUME NEW D, IsFiniteSet(D), NEW s \in SUBSET D
  PROVE  /\ IsFiniteSet(s) /\ Cardinality(s) \in Nat /\ Cardinality(s) <= Cardinality(D)
         /\ Cardinality(s) = 0 <=> s = {}
         /\ s # {} => OneOf(s) \in s
         /\ \A x \in s : s \ {x} \in SUBSET D /\ Cardinality(s \ {x}) = Cardinality(s) - 1
<1>1. IsFiniteSet(s) /\ Cardinality(s) <= Cardinality(D)
  BY FS_Subset
<1>2. Cardinality(s) \in Nat
  BY <1>1, FS_CardinalityType
<1>3. Cardinality(s) = 0 <=> s = {}
  BY <1>1, FS_EmptySet
<1>4. s # {} => OneOf(s) \in s
  BY DEF OneOf
<1>5. \A x \in s : s \ {x} \in SUBSET D /\ Cardinality(s \ {x}) = Cardinality(s) - 1
  BY <1>1, FS_RemoveElement
<1>6. QED
  BY <1>1, <1>2, <1>3, <1>4, <1>5

\* The recursive definition has a solution.
LEMMA SumsExist ==
  ASSUME NEW D, IsFiniteSet(D)
  PROVE  \E F : F = SumStep(F, D)
<1> DEFINE Bad == {n \in Nat : ~ \E F : FirstSums(F, D, n)}
<1>1. Bad = {}
  <2>1. SUFFICES ASSUME Bad # {}
                 PROVE  FALSE
    OBVIOUS
  <2>2. PICK n \in Bad : \A k \in Bad : n <= k
    <3>1. Bad \in SUBSET Nat
      OBVIOUS
    <3> HIDE DEF Bad
    <3>2. QED
      BY <2>1, <3>1, LeastNat
  <2>3. n \in Nat /\ ~ \E F : FirstSums(F, D, n)
    BY <2>2
  <2>4. n # 0
    <3> DEFINE Z == [s \in SUBSET D |-> 0]
    <3>1. FirstSums(Z, D, 0)
      <4>1. Z = [s \in SUBSET D |-> Z[s]]
        OBVIOUS
      <4>2. ASSUME NEW s \in SUBSET D, Cardinality(s) <= 0
            PROVE  s = {} /\ Z[s] = 0
        <5>1. Cardinality(s) \in Nat /\ (Cardinality(s) = 0 <=> s = {})
          BY Smaller
        <5>2. QED
          BY <4>2, <5>1
      <4> HIDE DEF Z
      <4>3. QED
        BY <4>1, <4>2 DEF FirstSums
    <3> HIDE DEF Z
    <3>2. QED
      BY <2>3, <3>1
  <2>5. n - 1 \in Nat /\ n - 1 \notin Bad
    <3>1. n - 1 \in Nat /\ ~ (n <= n - 1)
      BY <2>3, <2>4
    <3> HIDE DEF Bad
    <3>2. QED
      BY <2>2, <3>1
  <2>6. PICK F : FirstSums(F, D, n - 1)
    BY <2>5
  <2> HIDE DEF Bad
  <2> DEFINE G == [s \in SUBSET D |-> IF Cardinality(s) <= n - 1 THEN F[s]
                                      ELSE IF s = {} THEN 0 ELSE OneOf(s).len + F[s \ {OneOf(s)}]]
  <2>7. G = [s \in SUBSET D |-> G[s]]
    OBVIOUS
  <2>8. \A s \in SUBSET D : Cardinality(s) <= n - 1 => G[s] = F[s]
    OBVIOUS
  <2>9. \A s \in SUBSET D : G[s] = IF s = {} THEN 0 ELSE OneOf(s).len + F[s \ {OneOf(s)}]
    BY <2>6 DEF FirstSums
  <2> HIDE DEF G
  <2>10. ASSUME NEW s \in SUBSET D, Cardinality(s) <= n
         PROVE  G[s] = IF s = {} THEN 0 ELSE OneOf(s).len + G[s \ {OneOf(s)}]
    <3>1. CASE s = {}
      BY <2>9, <3>1
    <3>2. CASE s # {}
      <4>1. /\ s \ {OneOf(s)} \in SUBSET D /\ Cardinality(s \ {OneOf(s)}) = Cardinality(s) - 1
            /\ Cardinality(s) \in Nat
        BY <3>2, Smaller
      <4>2. Cardinality(s \ {OneOf(s)}) <= n - 1
        BY <2>3, <2>10, <4>1
      <4>3. G[s \ {OneOf(s)}] = F[s \ {OneOf(s)}]
        BY <2>8, <4>1, <4>2
      <4>4. QED
        BY <2>9, <3>2, <4>3
    <3>3. QED
      BY <3>1, <3>2
  <2>11. FirstSums(G, D, n)
    BY <2>7, <2>10 DEF FirstSums
  <2>12. QED
    BY <2>3, <2>11
<1>2. Cardinality(D) \in Nat
  BY FS_CardinalityType
<1>3. PICK F : FirstSums(F, D, Cardinality(D))
  BY <1>1, <1>2
<1>4. ASSUME NEW s \in SUBSET D
      PROVE  F[s] = IF s = {} THEN 0 ELSE OneOf(s).len + F[s \ {OneOf(s)}]
  <2>1. Cardinality(s) <= Cardinality(D)
    BY Smaller
  <2>2. QED
    BY <1>3, <2>1 DEF FirstSums
<1>5. F = [s \in SUBSET D |-> F[s]]
  BY <1>3 DEF FirstSums
<1>6. F = SumStep(F, D)
  BY <1>4, <1>5 DEF SumStep
<1>7. QED
  BY <1>6

\* So the fold is a sum.
LEMMA FoldSums ==
  ASSUME NEW D, IsFiniteSet(D)
  PROVE  \E F : Sums(F, D) /\ LenSum(D) = F[D]
<1> DEFINE F == CHOOSE f : f = SumStep(f, D)
<1>1. F = SumStep(F, D)
  BY SumsExist
<1>2. LenSum(D) = F[D]
  BY DEF LenSum, MapThenSumSet, MapThenFoldSet, SumStep, OneOf
<1> HIDE DEF F
<1>3. ASSUME NEW s \in SUBSET D
      PROVE  F[s] = IF s = {} THEN 0 ELSE OneOf(s).len + F[s \ {OneOf(s)}]
  BY <1>1 DEF SumStep
<1>4. Sums(F, D)
  BY <1>3 DEF Sums
<1>5. QED
  BY <1>2, <1>4

\* Any element may be taken first.
LEMMA SumSplits ==
  ASSUME NEW D, IsFiniteSet(D), \A x \in D : x.len \in Nat, NEW F, Sums(F, D)
  PROVE  \A s \in SUBSET D : F[s] \in Nat /\ \A x \in s : F[s] = x.len + F[s \ {x}]
<1> DEFINE Fine(s) == F[s] \in Nat /\ \A x \in s : F[s] = x.len + F[s \ {x}]
           Bad == {n \in Nat : \E s \in SUBSET D : Cardinality(s) = n /\ ~ Fine(s)}
<1>1. Bad = {}
  <2>1. SUFFICES ASSUME Bad # {}
                 PROVE  FALSE
    OBVIOUS
  <2>2. PICK n \in Bad : \A k \in Bad : n <= k
    <3>1. Bad \in SUBSET Nat
      OBVIOUS
    <3> HIDE DEF Bad
    <3>2. QED
      BY <2>1, <3>1, LeastNat
  <2>3. PICK s \in SUBSET D : Cardinality(s) = n /\ ~ Fine(s)
    BY <2>2
  <2>4. ASSUME NEW t \in SUBSET D, Cardinality(t) < n
        PROVE  Fine(t)
    <3>1. Cardinality(t) \in Nat /\ n \in Nat
      BY <2>2, Smaller
    <3>2. ~ (n <= Cardinality(t))
      BY <2>4, <3>1
    <3>3. Cardinality(t) \notin Bad
      BY <2>2, <3>2
    <3> HIDE DEF Fine
    <3>4. QED
      BY <3>1, <3>3
  <2> HIDE DEF Bad
  <2>5. CASE s = {}
    <3>1. F[s] = 0
      BY <2>5 DEF Sums
    <3>2. Fine(s)
      BY <2>5, <3>1
    <3>3. QED
      BY <2>3, <3>2
  <2>6. CASE s # {}
    <3> DEFINE y == OneOf(s)
    <3>1. y \in s
      BY <2>6, Smaller
    <3>2. \A x \in s : s \ {x} \in SUBSET D /\ Cardinality(s \ {x}) < n
      <4>1. n \in Nat /\ \A x \in s : s \ {x} \in SUBSET D /\ Cardinality(s \ {x}) = n - 1
        BY <2>3, Smaller
      <4>2. QED
        BY <4>1
    <3>3. F[s] = y.len + F[s \ {y}]
      BY <2>6 DEF Sums
    <3> HIDE DEF y
    <3>4. \A x \in s : Fine(s \ {x})
      BY <2>4, <3>2
    <3>5. F[s] \in Nat
      <4>1. F[s \ {y}] \in Nat /\ y.len \in Nat
        BY <3>1, <3>4
      <4>2. QED
        BY <3>3, <4>1
    <3>6. ASSUME NEW x \in s
          PROVE  F[s] = x.len + F[s \ {x}]
      <4>1. CASE x = y
        BY <3>3, <4>1
      <4>2. CASE x # y
        <5>1. x \in s \ {y} /\ y \in s \ {x} /\ (s \ {y}) \ {x} = (s \ {x}) \ {y}
          BY <3>1, <4>2
        <5>2. F[s \ {y}] = x.len + F[(s \ {y}) \ {x}]
          BY <3>1, <3>4, <5>1
        <5>3. F[s \ {x}] = y.len + F[(s \ {y}) \ {x}]
          BY <3>4, <5>1
        <5>4. F[(s \ {y}) \ {x}] \in Nat
          <6>1. PICK q \in SUBSET D : q = s \ {y}
            OBVIOUS
          <6>2. x \in q /\ Cardinality(q) < n /\ n \in Nat
            BY <2>3, <3>1, <3>2, <5>1, <6>1, Smaller
          <6>3. q \ {x} \in SUBSET D /\ Cardinality(q \ {x}) = Cardinality(q) - 1 /\ Cardinality(q) \in Nat
            BY <6>2, Smaller
          <6>4. Cardinality(q \ {x}) < n
            BY <6>2, <6>3
          <6>5. F[q \ {x}] \in Nat
            BY <2>4, <6>3, <6>4
          <6>6. QED
            BY <6>1, <6>5
        <5>5. x.len \in Nat /\ y.len \in Nat
          BY <3>1
        <5>6. QED
          BY <3>3, <5>2, <5>3, <5>4, <5>5
      <4>3. QED
        BY <4>1, <4>2
    <3>7. Fine(s)
      BY <3>5, <3>6
    <3>8. QED
      BY <2>3, <3>7
  <2>7. QED
    BY <2>5, <2>6
<1>2. ASSUME NEW s \in SUBSET D
      PROVE  Fine(s)
  <2>1. Cardinality(s) \in Nat
    BY Smaller
  <2>2. QED
    BY <1>1, <2>1
<1>3. QED
  BY <1>2

\* There is one sum only.
LEMMA SumUnique ==
  ASSUME NEW D, IsFiniteSet(D), NEW F, Sums(F, D), NEW G, Sums(G, D)
  PROVE  \A s \in SUBSET D : F[s] = G[s]
<1> DEFINE Bad == {n \in Nat : \E s \in SUBSET D : Cardinality(s) = n /\ F[s] # G[s]}
<1>1. Bad = {}
  <2>1. SUFFICES ASSUME Bad # {}
                 PROVE  FALSE
    OBVIOUS
  <2>2. PICK n \in Bad : \A k \in Bad : n <= k
    <3>1. Bad \in SUBSET Nat
      OBVIOUS
    <3> HIDE DEF Bad
    <3>2. QED
      BY <2>1, <3>1, LeastNat
  <2>3. PICK s \in SUBSET D : Cardinality(s) = n /\ F[s] # G[s]
    BY <2>2
  <2>4. s # {}
    BY <2>3 DEF Sums
  <2>5. PICK t \in SUBSET D : t = s \ {OneOf(s)}
    OBVIOUS
  <2>6. OneOf(s) \in s
    BY <2>4, Smaller
  <2>7. Cardinality(t) = n - 1 /\ n \in Nat /\ Cardinality(t) \in Nat
    BY <2>3, <2>5, <2>6, Smaller
  <2>8. n - 1 \in Nat /\ ~ (n <= n - 1)
    BY <2>7
  <2>9. n - 1 \notin Bad
    BY <2>2, <2>8
  <2>10. F[t] = G[t]
    BY <2>7, <2>8, <2>9
  <2> HIDE DEF Bad
  <2>11. F[s] = OneOf(s).len + F[t] /\ G[s] = OneOf(s).len + G[t]
    BY <2>4, <2>5 DEF Sums
  <2>12. QED
    BY <2>3, <2>10, <2>11
<1>2. QED
  <2> SUFFICES ASSUME NEW s \in SUBSET D
               PROVE  F[s] = G[s]
    OBVIOUS
  <2>1. Cardinality(s) \in Nat
    BY Smaller
  <2>2. QED
    BY <1>1, <2>1

\* What the sum is of no block, of one block more and of one block less.
LEMMA LenSumFacts ==
  ASSUME NEW D, IsFiniteSet(D), \A x \in D : x.len \in Nat
  PROVE  /\ LenSum(D) \in Nat
         /\ \A x \in D : LenSum(D \ {x}) = LenSum(D) - x.len
<1>1. PICK F : Sums(F, D) /\ LenSum(D) = F[D]
  BY FoldSums
<1>2. D \in SUBSET D
  OBVIOUS
<1>3. LenSum(D) \in Nat
  BY <1>1, <1>2, SumSplits
<1>4. ASSUME NEW x \in D
      PROVE  LenSum(D \ {x}) = LenSum(D) - x.len
  <2>1. PICK E \in SUBSET D : E = D \ {x}
    OBVIOUS
  <2>2. IsFiniteSet(E)
    BY FS_Subset
  <2>3. PICK G : Sums(G, E) /\ LenSum(E) = G[E]
    BY <2>2, FoldSums
  <2>4. Sums(F, E)
    BY <1>1, <2>1 DEF Sums
  <2>5. F[E] = G[E]
    BY <2>2, <2>3, <2>4, SumUnique
  <2>6. F[D] = x.len + F[E] /\ F[E] \in Nat
    BY <1>1, <1>2, <2>1, SumSplits
  <2>7. QED
    BY <1>1, <2>1, <2>3, <2>5, <2>6
<1>5. QED
  BY <1>3, <1>4

LEMMA LenSumEmpty == LenSum({}) = 0
<1>1. IsFiniteSet({})
  BY FS_EmptySet
<1>2. PICK F : Sums(F, {}) /\ LenSum({}) = F[{}]
  BY <1>1, FoldSums
<1>3. QED
  BY <1>2 DEF Sums

-----------------------------------------------------------------------------
(* Alignment                                                               *)

\* An alignment: a divisor of 16 or a multiple of it.
AlignOK(a) == a \in Nat \ {0} /\ (a \in {1, 2, 4, 8} \/ a % 16 = 0)

LEMMA Divides ==
  ASSUME NEW x \in Int, NEW a \in Nat \ {0}
  PROVE  x % a = 0 <=> \E q \in Int : x = q * a
<1>1. ASSUME x % a = 0
      PROVE  \E q \in Int : x = q * a
  <2>1. PICK q \in Int, r \in Int : q = x \div a /\ r = x % a
    OBVIOUS
  <2>2. x = q * a + r
    BY <2>1
  <2>3. PICK m \in Int : m = q * a
    OBVIOUS
  <2>4. x = q * a
    BY <1>1, <2>1, <2>2, <2>3
  <2>5. QED
    BY <2>4
<1>2. QED
  BY <1>1, Multiples

LEMMA MultiplesDivide ==
  ASSUME NEW a \in Nat \ {0}, NEW b \in Nat \ {0}, b % a = 0, NEW x \in Int, x % b = 0
  PROVE  x % a = 0
<1>1. PICK q \in Int : x = q * b
  BY Divides
<1>2. PICK r \in Int : b = r * a
  BY Divides
<1>3. x = (q * r) * a /\ q * r \in Int
  BY <1>1, <1>2
<1>4. QED
  BY <1>3, Divides

LEMMA MultiplesAdd ==
  ASSUME NEW a \in Nat \ {0}, NEW x \in Int, x % a = 0, NEW y \in Int, y % a = 0
  PROVE  (x + y) % a = 0 /\ (x - y) % a = 0
<1>1. PICK q \in Int : x = q * a
  BY Divides
<1>2. PICK r \in Int : y = r * a
  BY Divides
<1>3. x + y = (q + r) * a /\ x - y = (q - r) * a /\ q + r \in Int /\ q - r \in Int
  BY <1>1, <1>2
<1>4. \A n, m \in Int : n = m * a => n % a = 0
  BY Divides
<1>5. x + y \in Int /\ x - y \in Int
  OBVIOUS
<1>6. QED
  BY <1>3, <1>4, <1>5

LEMMA HeapUpFacts ==
  ASSUME NEW p \in Nat, NEW a \in Nat \ {0}
  PROVE  HeapUp(p, a) \in Nat /\ HeapUp(p, a) >= p /\ HeapUp(p, a) % a = 0
BY UpFacts DEF HeapUp, Up

\* What is aligned to the larger of 16 and an alignment is aligned.
LEMMA AtLeast16 ==
  ASSUME NEW a, AlignOK(a)
  PROVE  LET c == PadAlign(a)
         IN  c \in Nat \ {0} /\ c >= 16 /\ c % 16 = 0 /\ \A x \in Int : x % c = 0 => x % a = 0
<1>1. CASE a < 16
  <2>1. a \in {1, 2, 4, 8}
    <3>1. a \in Nat \ {0} /\ (a % 16 = 0 => a \in {1, 2, 4, 8})
      BY <1>1 DEF AlignOK
    <3>2. QED
      BY <3>1 DEF AlignOK
  <2>2. 16 % a = 0 /\ a \in Nat \ {0}
    BY <2>1
  <2>3. 16 \in Nat \ {0} /\ 16 % 16 = 0
    OBVIOUS
  <2>4. \A x \in Int : x % 16 = 0 => x % a = 0
    BY <2>2, <2>3, MultiplesDivide
  <2>5. QED
    BY <1>1, <2>3, <2>4 DEF PadAlign
<1>2. CASE ~ (a < 16)
  <2>1. a \in Nat \ {0} /\ a >= 16
    BY <1>2 DEF AlignOK
  <2>2. a % 16 = 0
    BY <2>1 DEF AlignOK
  <2>3. QED
    BY <1>2, <2>1, <2>2 DEF PadAlign
<1>3. QED
  BY <1>1, <1>2

-----------------------------------------------------------------------------
(* The heap between calls                                                  *)

HeapBlock == [base : Nat, at : Nat, len : Nat \ {0}, kind : {"user"}]
Cells(b)  == b.base .. b.base + b.len - 1

\* Where a block begins for the user: over UPC behind a header that says where the block
\* begins and how long it is.
FrontOK(h, b) ==
  IF h.upc THEN /\ b.at - b.base >= 16 /\ b.at <= b.base + b.len
                /\ Word(h, b.at - 8) = b.at - b.base /\ Word(h, b.at - 16) = b.len
           ELSE b.at = b.base
InSegment(b) == HeapBase <= b.base /\ b.base + b.len <= HeapBase + HeapSize
Disjoint(b, c) == b.base + b.len <= c.base \/ c.base + c.len <= b.base

\* The heap has these blocks, apart from each other and with their headers, and the
\* footprints are theirs.
WholeHeap(h) ==
  /\ h = [isinit |-> TRUE, upc |-> h.upc, base |-> HeapBase, size |-> HeapSize, blocks |-> h.blocks,
          head |-> h.head, foot |-> h.foot, fault |-> FALSE]
  /\ h.upc \in BOOLEAN /\ h.blocks \subseteq HeapBlock /\ IsFiniteSet(h.blocks)
  /\ \A b \in h.blocks : InSegment(b) /\ FrontOK(h, b)
  /\ \A b, c \in h.blocks : b = c \/ Disjoint(b, c)
  /\ h.foot = [k \in Kinds |-> IF k = "user" THEN [count |-> Cardinality(h.blocks), bytes |-> LenSum(h.blocks)]
                               ELSE NoFootprint]

\* The words in the blocks B are the same in both heaps.
Agree(h, g, B) == \A b \in B : \A a \in Cells(b) : Word(g, a) = Word(h, a)

\* Heap g is h with a block more, or with a block less, or with the same blocks.
Gained(h, g, b) == /\ WholeHeap(g) /\ g.upc = h.upc /\ b \notin h.blocks
                   /\ g.blocks = h.blocks \cup {b} /\ Agree(h, g, h.blocks)
Lost(h, g, b)   == /\ WholeHeap(g) /\ g.upc = h.upc /\ b \in h.blocks
                   /\ g.blocks = h.blocks \ {b} /\ Agree(h, g, h.blocks \ {b})
Alike(h, g)     == WholeHeap(g) /\ g.upc = h.upc /\ g.blocks = h.blocks /\ Agree(h, g, h.blocks)

\* The front of a block depends on the words in it only.
LEMMA FrontStays ==
  ASSUME NEW h, NEW g, NEW b \in HeapBlock, g.upc = h.upc, FrontOK(h, b), Agree(h, g, {b})
  PROVE  FrontOK(g, b)
<1>1. b.base \in Nat /\ b.at \in Nat /\ b.len \in Nat
  BY DEF HeapBlock
<1>2. CASE h.upc
  <2>1. b.at - b.base >= 16 /\ b.at <= b.base + b.len
    BY <1>2 DEF FrontOK
  <2>2. b.at - 8 \in Cells(b) /\ b.at - 16 \in Cells(b)
    BY <1>1, <2>1 DEF Cells
  <2>3. Word(g, b.at - 8) = Word(h, b.at - 8) /\ Word(g, b.at - 16) = Word(h, b.at - 16)
    BY <2>2 DEF Agree
  <2>4. QED
    BY <1>2, <2>3 DEF FrontOK
<1>3. CASE ~ h.upc
  BY <1>3 DEF FrontOK
<1>4. QED
  BY <1>2, <1>3

\* A heap with other blocks and words, and n bytes more, and one with other words only.
WithBlocks(h, C, w, n) == [h EXCEPT !.blocks = C, !.head = w, !.foot["user"] = Charge(@, n)]
WithCharge(h, C, n) == [h EXCEPT !.blocks = C, !.foot["user"] = Charge(@, n)]
WithWords(h, w) == [h EXCEPT !.head = w]

LEMMA WithBlocksIs ==
  ASSUME NEW h, WholeHeap(h), NEW C, NEW w, NEW n
  PROVE  WithBlocks(h, C, w, n)
         = [isinit |-> TRUE, upc |-> h.upc, base |-> HeapBase, size |-> HeapSize, blocks |-> C,
            head |-> w, foot |-> [h.foot EXCEPT !["user"] = Charge(@, n)], fault |-> FALSE]
<1>1. PICK u, B, v, f : h.upc = u /\ h.blocks = B /\ h.head = v /\ h.foot = f
  OBVIOUS
<1>2. h = [isinit |-> TRUE, upc |-> u, base |-> HeapBase, size |-> HeapSize, blocks |-> B,
           head |-> v, foot |-> f, fault |-> FALSE]
  BY <1>1 DEF WholeHeap
<1>3. PICK g : g = [h EXCEPT !.blocks = C, !.head = w, !.foot["user"] = Charge(@, n)]
  OBVIOUS
<1>4. g = [isinit |-> TRUE, upc |-> u, base |-> HeapBase, size |-> HeapSize, blocks |-> C,
           head |-> w, foot |-> [f EXCEPT !["user"] = Charge(@, n)], fault |-> FALSE]
  BY <1>2, <1>3
<1>5. QED
  BY <1>1, <1>3, <1>4 DEF WithBlocks

LEMMA WithBlocksWords ==
  ASSUME NEW h, WholeHeap(h), NEW C, NEW w, NEW n
  PROVE  WithBlocks(h, C, w, n).head = w
BY WithBlocksIs

LEMMA WithBlocksUpc ==
  ASSUME NEW h, WholeHeap(h), NEW C, NEW w, NEW n
  PROVE  WithBlocks(h, C, w, n).upc = h.upc
BY WithBlocksIs

LEMMA SameWords ==
  ASSUME NEW h, WholeHeap(h), NEW C, NEW n
  PROVE  WithCharge(h, C, n) = WithBlocks(h, C, h.head, n)
<1>1. PICK u, B, v, f : h.upc = u /\ h.blocks = B /\ h.head = v /\ h.foot = f
  OBVIOUS
<1>2. h = [isinit |-> TRUE, upc |-> u, base |-> HeapBase, size |-> HeapSize, blocks |-> B,
           head |-> v, foot |-> f, fault |-> FALSE]
  BY <1>1 DEF WholeHeap
<1>3. PICK d : d = [h EXCEPT !.blocks = C, !.foot["user"] = Charge(@, n)]
  OBVIOUS
<1>4. d = [isinit |-> TRUE, upc |-> u, base |-> HeapBase, size |-> HeapSize, blocks |-> C,
           head |-> v, foot |-> [f EXCEPT !["user"] = Charge(@, n)], fault |-> FALSE]
  BY <1>2, <1>3
<1>5. PICK c : c = [h EXCEPT !.blocks = C, !.head = v, !.foot["user"] = Charge(@, n)]
  OBVIOUS
<1>6. c = [isinit |-> TRUE, upc |-> u, base |-> HeapBase, size |-> HeapSize, blocks |-> C,
           head |-> v, foot |-> [f EXCEPT !["user"] = Charge(@, n)], fault |-> FALSE]
  BY <1>2, <1>5
<1>7. d = c
  BY <1>4, <1>6
<1>8. QED
  BY <1>1, <1>3, <1>5, <1>7 DEF WithBlocks, WithCharge

LEMMA WithWordsIs ==
  ASSUME NEW h, WholeHeap(h), NEW w
  PROVE  WithWords(h, w)
         = [isinit |-> TRUE, upc |-> h.upc, base |-> HeapBase, size |-> HeapSize, blocks |-> h.blocks,
            head |-> w, foot |-> h.foot, fault |-> FALSE]
<1>1. PICK u, B, v, f : h.upc = u /\ h.blocks = B /\ h.head = v /\ h.foot = f
  OBVIOUS
<1>2. h = [isinit |-> TRUE, upc |-> u, base |-> HeapBase, size |-> HeapSize, blocks |-> B,
           head |-> v, foot |-> f, fault |-> FALSE]
  BY <1>1 DEF WholeHeap
<1>3. PICK k : k = [h EXCEPT !.head = w]
  OBVIOUS
<1>4. k = [isinit |-> TRUE, upc |-> u, base |-> HeapBase, size |-> HeapSize, blocks |-> B,
           head |-> w, foot |-> f, fault |-> FALSE]
  BY <1>2, <1>3
<1>5. QED
  BY <1>1, <1>3, <1>4 DEF WithWords

\* A block more.
LEMMA HeapGrows ==
  ASSUME NEW h, WholeHeap(h), NEW b \in HeapBlock, InSegment(b), \A c \in h.blocks : Disjoint(b, c),
         NEW g, NEW w,
         g = WithBlocks(h, h.blocks \cup {b}, w, b.len), FrontOK(g, b), Agree(h, g, h.blocks)
  PROVE  Gained(h, g, b)
<1>1. /\ g = [isinit |-> TRUE, upc |-> h.upc, base |-> HeapBase, size |-> HeapSize, blocks |-> h.blocks \cup {b},
              head |-> w, foot |-> [h.foot EXCEPT !["user"] = Charge(@, b.len)], fault |-> FALSE]
  BY WithBlocksIs
<1>2. /\ g.upc = h.upc /\ g.blocks = h.blocks \cup {b} /\ g.head = w
      /\ g.foot = [h.foot EXCEPT !["user"] = Charge(@, b.len)]
  BY <1>1
<1>3. g = [isinit |-> TRUE, upc |-> g.upc, base |-> HeapBase, size |-> HeapSize, blocks |-> g.blocks,
           head |-> g.head, foot |-> g.foot, fault |-> FALSE]
  BY <1>1, <1>2
<1>4. h.blocks \subseteq HeapBlock /\ IsFiniteSet(h.blocks) /\ h.upc \in BOOLEAN
  BY DEF WholeHeap
<1>5. b \notin h.blocks
  <2>1. SUFFICES ASSUME b \in h.blocks
                 PROVE  FALSE
    OBVIOUS
  <2>2. Disjoint(b, b) /\ b.base \in Nat /\ b.len \in Nat \ {0}
    BY <2>1 DEF HeapBlock
  <2>3. QED
    BY <2>2 DEF Disjoint
<1>6. \A c \in g.blocks : InSegment(c) /\ FrontOK(g, c)
  <2>1. ASSUME NEW c \in h.blocks
        PROVE  InSegment(c) /\ FrontOK(g, c)
    <3>1. InSegment(c) /\ FrontOK(h, c) /\ c \in HeapBlock /\ Agree(h, g, {c})
      BY <1>4 DEF WholeHeap, Agree
    <3>2. QED
      BY <1>2, <3>1, FrontStays
  <2>2. QED
    BY <1>2, <2>1
<1>7. \A c, d \in g.blocks : c = d \/ Disjoint(c, d)
  <2>1. \A c, d \in h.blocks : c = d \/ Disjoint(c, d)
    BY DEF WholeHeap
  <2>2. \A c \in h.blocks : Disjoint(c, b)
    BY DEF Disjoint
  <2>3. QED
    BY <1>2, <2>1, <2>2
<1>8. IsFiniteSet(g.blocks) /\ Cardinality(g.blocks) = Cardinality(h.blocks) + 1
  <2>1. PICK B, C : B = h.blocks /\ C = B \cup {b}
    OBVIOUS
  <2>2. IsFiniteSet(B) /\ b \notin B
    BY <1>4, <1>5, <2>1
  <2>3. IsFiniteSet(C) /\ Cardinality(C) = Cardinality(B) + 1
    BY <2>1, <2>2, FS_AddElement
  <2>4. QED
    BY <1>2, <2>1, <2>3
<1>9. LenSum(g.blocks) = LenSum(h.blocks) + b.len
  <2>1. \A x \in g.blocks : x.len \in Nat
    BY <1>2, <1>4 DEF HeapBlock
  <2>2. b \in g.blocks /\ g.blocks \ {b} = h.blocks
    BY <1>2, <1>5
  <2>3. LenSum(h.blocks) = LenSum(g.blocks) - b.len /\ LenSum(g.blocks) \in Nat
    BY <1>8, <2>1, <2>2, LenSumFacts
  <2>4. b.len \in Nat
    BY DEF HeapBlock
  <2>5. QED
    BY <2>3, <2>4
<1>10. g.foot = [k \in Kinds |-> IF k = "user" THEN [count |-> Cardinality(g.blocks), bytes |-> LenSum(g.blocks)]
                                 ELSE NoFootprint]
  <2>1. h.foot = [k \in Kinds |-> IF k = "user" THEN [count |-> Cardinality(h.blocks), bytes |-> LenSum(h.blocks)]
                                  ELSE NoFootprint]
    BY DEF WholeHeap
  <2>2. "user" \in Kinds
    BY DEF Kinds
  <2>3. Charge(h.foot["user"], b.len) = [count |-> Cardinality(g.blocks), bytes |-> LenSum(g.blocks)]
    BY <1>8, <1>9, <2>1, <2>2 DEF Charge
  <2>4. QED
    BY <1>2, <2>1, <2>2, <2>3
<1>11. WholeHeap(g)
  <2>1. g.upc \in BOOLEAN /\ g.blocks \subseteq HeapBlock
    BY <1>2, <1>4
  <2>2. QED
    BY <1>3, <1>6, <1>7, <1>8, <1>10, <2>1 DEF WholeHeap
<1>12. QED
  BY <1>2, <1>5, <1>11 DEF Gained

\* A block less.
LEMMA HeapShrinks ==
  ASSUME NEW h, WholeHeap(h), NEW b \in h.blocks
  PROVE  Lost(h, Freed(h, b.base, b.len, "user"), b)
<1> DEFINE g == Freed(h, b.base, b.len, "user")
           kept == {a \in DOMAIN h.head : \E c \in h.blocks : c.base # b.base /\ c.base <= a /\ a < c.base + c.len}
<1>1. h.blocks \subseteq HeapBlock /\ IsFiniteSet(h.blocks) /\ h.upc \in BOOLEAN /\ b \in HeapBlock
  BY DEF WholeHeap
<1>2. \A c \in h.blocks : c.base \in Nat /\ c.len \in Nat \ {0} /\ (c = b <=> c.base = b.base)
  <2> SUFFICES ASSUME NEW c \in h.blocks
               PROVE  c.base \in Nat /\ c.len \in Nat \ {0} /\ (c = b <=> c.base = b.base)
    OBVIOUS
  <2>1. c.base \in Nat /\ c.len \in Nat \ {0} /\ b.base \in Nat /\ b.len \in Nat \ {0}
    BY <1>1 DEF HeapBlock
  <2>2. c = b \/ Disjoint(c, b)
    BY DEF WholeHeap
  <2>3. QED
    BY <2>1, <2>2 DEF Disjoint
<1>3. g = [isinit |-> TRUE, upc |-> h.upc, base |-> HeapBase, size |-> HeapSize, blocks |-> h.blocks \ {b},
           head |-> Restrict(h.head, kept), foot |-> [h.foot EXCEPT !["user"] = Credit(@, b.len)], fault |-> FALSE]
  <2>1. PICK u, B, v, f : h.upc = u /\ h.blocks = B /\ h.head = v /\ h.foot = f
    OBVIOUS
  <2>2. h = [isinit |-> TRUE, upc |-> u, base |-> HeapBase, size |-> HeapSize, blocks |-> B,
             head |-> v, foot |-> f, fault |-> FALSE]
    BY <2>1 DEF WholeHeap
  <2>3. \E c \in h.blocks : c.base = b.base
    OBVIOUS
  <2>4. {c \in h.blocks : c.base # b.base} = h.blocks \ {b}
    BY <1>2
  <2>5. h.isinit = TRUE /\ h.fault = FALSE
    BY <2>2
  <2>6. PICK w, C : w = Restrict(h.head, kept) /\ C = h.blocks \ {b}
    OBVIOUS
  <2>7. (h.fault \/ ~h.isinit \/ ~\E c \in h.blocks : c.base = b.base) = FALSE
    BY <2>3, <2>5
  <2>8. g = [h EXCEPT !.fault = FALSE, !.blocks = C, !.foot["user"] = Credit(@, b.len), !.head = w]
    BY <2>4, <2>6, <2>7 DEF Freed
  <2>9. g = [isinit |-> TRUE, upc |-> u, base |-> HeapBase, size |-> HeapSize, blocks |-> C,
             head |-> w, foot |-> [f EXCEPT !["user"] = Credit(@, b.len)], fault |-> FALSE]
    <3> HIDE DEF g
    <3>1. QED
      BY <2>2, <2>8
  <2>10. QED
    BY <2>1, <2>6, <2>9
<1> HIDE DEF g
<1>4. /\ g.upc = h.upc /\ g.blocks = h.blocks \ {b} /\ g.head = Restrict(h.head, kept)
      /\ g.foot = [h.foot EXCEPT !["user"] = Credit(@, b.len)]
  BY <1>3
<1>5. g = [isinit |-> TRUE, upc |-> g.upc, base |-> HeapBase, size |-> HeapSize, blocks |-> g.blocks,
           head |-> g.head, foot |-> g.foot, fault |-> FALSE]
  BY <1>3, <1>4
<1>6. Agree(h, g, h.blocks \ {b})
  <2> SUFFICES ASSUME NEW c \in h.blocks \ {b}, NEW a \in Cells(c)
               PROVE  Word(g, a) = Word(h, a)
    BY DEF Agree
  <2>1. c.base # b.base /\ c.base <= a /\ a < c.base + c.len
    BY <1>2 DEF Cells
  <2>2. a \in DOMAIN h.head <=> a \in kept
    BY <2>1
  <2>3. DOMAIN g.head = kept /\ \A x \in kept : g.head[x] = h.head[x]
    BY <1>4 DEF Restrict
  <2> HIDE DEF kept
  <2>4. QED
    BY <2>2, <2>3 DEF Word
<1> HIDE DEF kept
<1>7. \A c \in g.blocks : InSegment(c) /\ FrontOK(g, c)
  <2> SUFFICES ASSUME NEW c \in g.blocks
               PROVE  InSegment(c) /\ FrontOK(g, c)
    OBVIOUS
  <2>1. c \in h.blocks \ {b} /\ c \in HeapBlock
    BY <1>1, <1>4
  <2>2. InSegment(c) /\ FrontOK(h, c) /\ Agree(h, g, {c})
    BY <1>6, <2>1 DEF WholeHeap, Agree
  <2>3. QED
    BY <1>4, <2>1, <2>2, FrontStays
<1>8. \A c, d \in g.blocks : c = d \/ Disjoint(c, d)
  BY <1>4 DEF WholeHeap
<1>9. IsFiniteSet(g.blocks) /\ Cardinality(g.blocks) = Cardinality(h.blocks) - 1
  BY <1>1, <1>4, FS_RemoveElement
<1>10. LenSum(g.blocks) = LenSum(h.blocks) - b.len
  <2>1. \A x \in h.blocks : x.len \in Nat
    BY <1>2
  <2>2. QED
    BY <1>1, <1>4, <2>1, LenSumFacts
<1>11. g.foot = [k \in Kinds |-> IF k = "user" THEN [count |-> Cardinality(g.blocks), bytes |-> LenSum(g.blocks)]
                                 ELSE NoFootprint]
  <2>1. h.foot = [k \in Kinds |-> IF k = "user" THEN [count |-> Cardinality(h.blocks), bytes |-> LenSum(h.blocks)]
                                  ELSE NoFootprint]
    BY DEF WholeHeap
  <2>2. "user" \in Kinds
    BY DEF Kinds
  <2>3. Credit(h.foot["user"], b.len) = [count |-> Cardinality(g.blocks), bytes |-> LenSum(g.blocks)]
    BY <1>9, <1>10, <2>1, <2>2 DEF Credit
  <2>4. QED
    BY <1>4, <2>1, <2>2, <2>3
<1>12. WholeHeap(g)
  <2>1. g.upc \in BOOLEAN /\ g.blocks \subseteq HeapBlock
    BY <1>1, <1>4
  <2>2. QED
    BY <1>5, <1>7, <1>8, <1>9, <1>11, <2>1 DEF WholeHeap
<1>13. Lost(h, g, b)
  BY <1>4, <1>6, <1>12 DEF Lost
<1>14. QED
  BY <1>13 DEF g

\* deallocate, given the front of a block, gives that block back: over UPC the header
\* says where it begins and what it was charged for.
LEMMA DeallocateLoses ==
  ASSUME NEW h, WholeHeap(h), NEW b \in h.blocks
  PROVE  Lost(h, deallocate(h, b.at, "user"), b)
<1>1. b \in HeapBlock /\ InSegment(b) /\ FrontOK(h, b) /\ h.upc \in BOOLEAN
  BY DEF WholeHeap
<1>2. b.base \in Nat /\ b.at \in Nat /\ b.len \in Nat /\ HeapBase \in Nat \ {0}
  BY <1>1, HeapAssumption DEF HeapBlock
<1>3. b.at # 0
  BY <1>1, <1>2 DEF InSegment, FrontOK
<1>4. CASE h.upc
  <2>1. Word(h, b.at - 8) = b.at - b.base /\ Word(h, b.at - 16) = b.len
    BY <1>1, <1>4 DEF FrontOK
  <2>2. b.at - Word(h, b.at - 8) = b.base
    BY <1>2, <2>1
  <2>3. deallocate(h, b.at, "user") = Freed(h, b.base, b.len, "user")
    BY <1>3, <1>4, <2>1, <2>2 DEF deallocate, UpcDeallocate
  <2>4. QED
    BY <2>3, HeapShrinks
<1>5. CASE ~ h.upc
  <2>1. b.at = b.base
    BY <1>1, <1>5 DEF FrontOK
  <2>2. \A c \in h.blocks : c.at = b.at => c = b
    <3> SUFFICES ASSUME NEW c \in h.blocks, c.at = b.at
                 PROVE  c = b
      OBVIOUS
    <3>1. c.at = c.base /\ c.base \in Nat /\ c.len \in Nat \ {0} /\ b.len \in Nat \ {0}
      BY <1>1, <1>5 DEF WholeHeap, FrontOK, HeapBlock
    <3>2. c = b \/ Disjoint(c, b)
      BY DEF WholeHeap
    <3>3. QED
      BY <1>2, <2>1, <3>1, <3>2 DEF Disjoint
  <2>3. (CHOOSE c \in h.blocks : c.at = b.at) = b
    BY <2>2
  <2>4. deallocate(h, b.at, "user") = Freed(h, b.base, b.len, "user")
    BY <1>3, <1>5, <2>1, <2>3 DEF deallocate, MspaceDeallocate
  <2>5. QED
    BY <2>4, HeapShrinks
<1>6. QED
  BY <1>1, <1>4, <1>5

\* The place that either allocator takes.
LEMMA PlaceIsFree ==
  ASSUME NEW h, WholeHeap(h), NEW len \in Nat, NEW align \in Nat \ {0}, Places(h, len, align) # {}
  PROVE  LET p == Min(Places(h, len, align))
         IN  /\ p \in Nat \ {0} /\ HeapBase <= p /\ p + len <= HeapBase + HeapSize /\ p % align = 0
             /\ \A b \in h.blocks : p + len <= b.base \/ b.base + b.len <= p
<1> DEFINE S == Places(h, len, align)
           from == {h.base} \cup {b.base + b.len : b \in h.blocks}
<1>1. h.base = HeapBase /\ h.size = HeapSize
  <2>1. PICK u, B, v, f : h.upc = u /\ h.blocks = B /\ h.head = v /\ h.foot = f
    OBVIOUS
  <2>2. h = [isinit |-> TRUE, upc |-> u, base |-> HeapBase, size |-> HeapSize, blocks |-> B,
             head |-> v, foot |-> f, fault |-> FALSE]
    BY <2>1 DEF WholeHeap
  <2>3. QED
    BY <2>2
<1>2. HeapBase \in Nat \ {0} /\ HeapSize \in Nat
  BY HeapAssumption
<1>3. \A e \in from : e \in Nat /\ HeapBase <= e
  <2> SUFFICES ASSUME NEW b \in h.blocks
               PROVE  b.base + b.len \in Nat /\ HeapBase <= b.base + b.len
    BY <1>1, <1>2
  <2>1. b \in HeapBlock /\ InSegment(b)
    BY DEF WholeHeap
  <2>2. b.base \in Nat /\ b.len \in Nat
    BY <2>1 DEF HeapBlock
  <2>3. QED
    BY <1>2, <2>1, <2>2 DEF InSegment
<1>4. S = {a \in {HeapUp(e, align) : e \in from} :
             /\ a + len <= HeapBase + HeapSize
             /\ \A b \in h.blocks : a + len <= b.base \/ b.base + b.len <= a}
  BY <1>1 DEF Places
<1> HIDE DEF S, from
<1>5. ASSUME NEW a \in S
      PROVE  /\ a \in Nat /\ HeapBase <= a /\ a % align = 0 /\ a + len <= HeapBase + HeapSize
             /\ \A b \in h.blocks : a + len <= b.base \/ b.base + b.len <= a
  <2>1. PICK e \in from : a = HeapUp(e, align)
    BY <1>4
  <2>2. e \in Nat /\ HeapBase <= e
    BY <1>3
  <2>3. a \in Nat /\ a >= e /\ a % align = 0
    BY <2>1, <2>2, HeapUpFacts
  <2>4. HeapBase <= a
    BY <1>2, <2>2, <2>3
  <2>5. a + len <= HeapBase + HeapSize /\ \A b \in h.blocks : a + len <= b.base \/ b.base + b.len <= a
    BY <1>4
  <2>6. QED
    BY <2>3, <2>4, <2>5
<1>6. Min(S) \in S
  <2>1. S \in SUBSET Nat /\ S # {}
    BY <1>5 DEF S
  <2>2. \E n \in S : \A k \in S : n <= k
    BY <2>1, LeastNat
  <2>3. QED
    BY <2>2 DEF Min
<1>7. Min(S) # 0
  BY <1>2, <1>5, <1>6
<1>8. QED
  BY <1>5, <1>6, <1>7 DEF S

\* What a block that was handed out is good for.
Handed(h, g, b, p, size, align) ==
  /\ Gained(h, g, b) /\ b \in HeapBlock /\ b.at = p /\ p \in Nat \ {0} /\ p % align = 0
  /\ b.base <= p /\ p + size <= b.base + b.len

\* The words w are in len bytes at base, and no block reaches into these.
WordsIn(w, base, len)   == \A x \in DOMAIN w : x \in base .. base + len - 1
NoneThere(h, base, len) == \A b \in h.blocks : base + len <= b.base \/ b.base + b.len <= base

\* A heap with new words in a place that is in no block agrees with the old one.
LEMMA NewWords ==
  ASSUME NEW h, WholeHeap(h), NEW g, NEW w, g.head = Written(w, h.head),
         NEW base \in Nat, NEW len \in Nat, WordsIn(w, base, len), NoneThere(h, base, len)
  PROVE  Agree(h, g, h.blocks)
<1>1. DOMAIN g.head = DOMAIN w \cup DOMAIN h.head
  BY DEF Written
<1>2. \A x : x \notin DOMAIN w /\ x \in DOMAIN h.head => g.head[x] = h.head[x]
  BY DEF Written
<1>3. ASSUME NEW b \in h.blocks, NEW a \in Cells(b)
      PROVE  Word(g, a) = Word(h, a)
  <2>1. b.base \in Nat /\ b.len \in Nat
    BY DEF WholeHeap, HeapBlock
  <2>2. a \notin base .. base + len - 1
    BY <2>1 DEF Cells, NoneThere
  <2>3. a \notin DOMAIN w
    BY <2>2 DEF WordsIn
  <2>4. QED
    BY <1>1, <1>2, <2>3 DEF Word
<1>4. QED
  BY <1>3 DEF Agree

\* Rounding down what is beyond base by an alignment: behind base by a header at least.
LEMMA PadFits ==
  ASSUME NEW base \in Nat, base % 16 = 0, NEW align \in Nat \ {0}, align % 16 = 0
  PROVE  LET user == ((base + align) \div align) * align
         IN  user \in Nat /\ user % align = 0 /\ user - base >= 16 /\ user <= base + align
<1>1. PICK q \in Int, r \in Int : q = (base + align) \div align /\ r = (base + align) % align
  OBVIOUS
<1>2. base + align = q * align + r /\ 0 <= r /\ r < align
  BY <1>1
<1>3. PICK m \in Int : m = q * align
  OBVIOUS
<1>4. ((base + align) \div align) * align = m
  BY <1>1, <1>3
<1>5. m % align = 0
  BY <1>3, Multiples
<1>6. m > base /\ m <= base + align
  BY <1>2, <1>3
<1>7. (m - base) % 16 = 0
  <2>1. 16 \in Nat \ {0} /\ base \in Int
    OBVIOUS
  <2>2. m % 16 = 0
    BY <1>5, <2>1, MultiplesDivide
  <2>3. QED
    BY <2>1, <2>2, MultiplesAdd
<1>8. m - base >= 16
  <2>1. PICK n \in Int : n = m - base
    OBVIOUS
  <2>2. n % 16 = 0 /\ n > 0
    BY <1>6, <1>7, <2>1
  <2>3. n >= 16
    BY <2>2
  <2>4. QED
    BY <2>1, <2>3
<1>9. QED
  BY <1>4, <1>5, <1>6, <1>8

\* A size that fits size_t is itself, and so is a padded one that does not wrap.
LEMMA WrapFits ==
  ASSUME NEW z \in Nat, z <= SizeMax
  PROVE  WrapSize(z) = z
BY HeapAssumption DEF WrapSize

LEMMA WrapIsSize ==
  ASSUME NEW z \in Nat
  PROVE  WrapSize(z) \in Nat
BY HeapAssumption DEF WrapSize

\* allocate_or_null over UPC, when the sum does not wrap: the pad is at least 16, and the
\* block is aligned as asked.
LEMMA PaddedHands ==
  ASSUME NEW h, WholeHeap(h), h.upc, NEW size \in Nat, NEW align0, AlignOK(align0), CanAllocate(h, size, align0),
         ~ PadWraps(h, size, align0)
  PROVE  LET r == PaddedAllocate(h, size, align0, "user")
         IN  \E b : Handed(h, r.h, b, r.p, size, align0)
<1>1. PICK align : align = PadAlign(align0)
  OBVIOUS
<1>2. align \in Nat \ {0} /\ align >= 16 /\ align % 16 = 0 /\ \A x \in Int : x % align = 0 => x % align0 = 0
  BY <1>1, AtLeast16
<1>3. PICK len : len = size + align /\ len = PaddedSize(size, align0)
  <2>1. size + align \in Nat /\ size + align <= SizeMax
    BY <1>1, <1>2, HeapAssumption DEF PadWraps
  <2>2. WrapSize(size + align) = size + align
    BY <2>1, WrapFits
  <2>3. QED
    BY <1>1, <2>2 DEF PaddedSize
<1>4. len \in Nat \ {0} /\ len >= size + align
  BY <1>2, <1>3
<1>5. PICK base : base = upc_alloc(h, len)
  OBVIOUS
<1>6. base # 0
  BY <1>1, <1>3, <1>5 DEF CanAllocate
<1>7. /\ base \in Nat \ {0} /\ HeapBase <= base /\ base + len <= HeapBase + HeapSize /\ base % 16 = 0
      /\ \A c \in h.blocks : base + len <= c.base \/ c.base + c.len <= base
  <2>1. Places(h, len, 16) # {} /\ base = Min(Places(h, len, 16))
    BY <1>5, <1>6 DEF upc_alloc
  <2>2. 16 \in Nat \ {0} /\ len \in Nat
    BY <1>4
  <2>3. QED
    BY <2>1, <2>2, PlaceIsFree
<1>8. PICK user : user = ((base + align) \div align) * align
  OBVIOUS
<1>9. user \in Nat /\ user % align = 0 /\ user - base >= 16 /\ user <= base + align
  BY <1>2, <1>7, <1>8, PadFits
<1>10. PICK w : w = [a \in {user - 8, user - 16} |-> IF a = user - 8 THEN user - base ELSE len]
  OBVIOUS
<1>11. PICK b : b = [base |-> base, at |-> user, len |-> len, kind |-> "user"]
  OBVIOUS
<1>12. PICK nw, B : nw = Written(w, h.head) /\ B = h.blocks \cup {b}
  OBVIOUS
<1>13. PICK g : g = WithBlocks(h, B, nw, len)
  OBVIOUS
<1>14. PaddedAllocate(h, size, align0, "user") = [p |-> user, h |-> g]
  BY <1>1, <1>3, <1>5, <1>8, <1>10, <1>11, <1>12, <1>13 DEF PaddedAllocate, WithBlocks
<1>15. user + size <= base + len /\ user <= base + len /\ base <= user /\ user # 0 /\ user % align0 = 0
  BY <1>2, <1>3, <1>7, <1>9
<1>16. b \in HeapBlock /\ b.at = user /\ b.base = base /\ b.len = len /\ Gained(h, g, b)
  <2>1. b.base = base /\ b.at = user /\ b.len = len /\ b \in HeapBlock
    BY <1>4, <1>7, <1>9, <1>11 DEF HeapBlock
  <2>2. g.head = nw /\ g.upc = h.upc
    <3>1. g.head = nw
      BY <1>13, WithBlocksWords
    <3>2. g.upc = h.upc
      BY <1>13, WithBlocksUpc, Zenon
    <3>3. QED
      BY <3>1, <3>2
  <2>3. DOMAIN w = {user - 8, user - 16} /\ w[user - 8] = user - base /\ w[user - 16] = len
    <3>1. user - 16 # user - 8
      BY <1>9
    <3>2. QED
      BY <1>10, <3>1
  <2>4. \A x \in DOMAIN w : x \in base .. base + len - 1
    BY <1>4, <1>7, <1>9, <1>15, <2>3
  <2>5. Agree(h, g, h.blocks) /\ \A x \in DOMAIN w : Word(g, x) = w[x]
    <3>1. base \in Nat /\ len \in Nat /\ g.head = Written(w, h.head)
      BY <1>4, <1>7, <1>12, <2>2
    <3>2. \A c \in h.blocks : base + len <= c.base \/ c.base + c.len <= base
      BY <1>7
    <3>3. WordsIn(w, base, len) /\ NoneThere(h, base, len)
      BY <2>4, <3>2 DEF WordsIn, NoneThere
    <3>4. Agree(h, g, h.blocks)
      BY <3>1, <3>3, NewWords
    <3>5. \A x \in DOMAIN w : Word(g, x) = w[x]
      BY <3>1 DEF Word, Written
    <3>6. QED
      BY <3>4, <3>5
  <2>6. FrontOK(g, b)
    BY <1>9, <1>15, <2>1, <2>2, <2>3, <2>5 DEF FrontOK
  <2>7. InSegment(b) /\ \A c \in h.blocks : Disjoint(b, c)
    BY <1>7, <2>1 DEF InSegment, Disjoint
  <2>8. g = WithBlocks(h, h.blocks \cup {b}, nw, b.len)
    BY <1>12, <1>13, <2>1
  <2>9. Gained(h, g, b)
    BY <2>1, <2>5, <2>6, <2>7, <2>8, HeapGrows
  <2>10. QED
    BY <2>1, <2>9
<1>17. Handed(h, g, b, user, size, align0)
  BY <1>9, <1>15, <1>16 DEF Handed
<1>18. QED
  BY <1>14, <1>17

\* allocate_or_null over dlmalloc.
LEMMA MspaceHands ==
  ASSUME NEW h, WholeHeap(h), ~ h.upc, NEW size \in Nat, NEW align \in Nat \ {0}
  PROVE  LET r == MspaceAllocate(h, size, align, "user")
         IN  (r.p = 0 /\ r.h = h) \/ \E b : Handed(h, r.h, b, r.p, size, align)
<1> DEFINE len == UsableSize(size)
           p   == mspace_memalign(h, align, size)
           b   == [base |-> p, at |-> p, len |-> len, kind |-> "user"]
           g   == [h EXCEPT !.blocks = @ \cup {b}, !.foot["user"] = Charge(@, len)]
<1>1. CASE p = 0
  BY <1>1 DEF MspaceAllocate
<1>2. CASE p # 0
  <2>1. MspaceAllocate(h, size, align, "user") = [p |-> p, h |-> g]
    BY <1>2 DEF MspaceAllocate
  <2>2. len \in Nat \ {0} /\ len >= size
    <3>1. size + 8 \in Nat /\ 16 \in Nat \ {0}
      OBVIOUS
    <3>2. HeapUp(size + 8, 16) \in Nat /\ HeapUp(size + 8, 16) >= size + 8 /\ HeapUp(size + 8, 16) % 16 = 0
      BY <3>1, HeapUpFacts
    <3>3. PICK n \in Nat : n = HeapUp(size + 8, 16)
      BY <3>2
    <3>4. n >= size + 8 /\ n % 16 = 0
      BY <3>2, <3>3
    <3>5. n - 8 \in Nat \ {0} /\ n - 8 >= size
      BY <3>4
    <3>6. QED
      BY <3>3, <3>5 DEF UsableSize
  <2> HIDE DEF len
  <2>3. /\ p \in Nat \ {0} /\ HeapBase <= p /\ p + len <= HeapBase + HeapSize /\ p % align = 0
        /\ \A c \in h.blocks : p + len <= c.base \/ c.base + c.len <= p
    <3>1. Places(h, len, align) # {} /\ p = Min(Places(h, len, align))
      BY <1>2 DEF mspace_memalign, len
    <3> HIDE DEF p
    <3>2. QED
      BY <2>2, <3>1, PlaceIsFree
  <2> HIDE DEF p
  <2>4. b \in HeapBlock /\ b.base = p /\ b.at = p /\ b.len = len
    BY <2>2, <2>3 DEF HeapBlock
  <2>5. p + size <= p + len
    BY <2>2, <2>3
  <2> HIDE DEF b
  <2>6. PICK v : v = h.head
    OBVIOUS
  <2>7. PICK k : k = g
    OBVIOUS
  <2>8. k = WithBlocks(h, h.blocks \cup {b}, v, b.len)
    <3>1. PICK C : C = h.blocks \cup {b}
      OBVIOUS
    <3>2. k = WithCharge(h, C, len)
      BY <2>7, <3>1 DEF WithCharge
    <3>3. k = WithBlocks(h, C, v, len)
      BY <2>6, <3>2, SameWords
    <3>4. QED
      BY <2>4, <3>1, <3>3
  <2>9. k.head = h.head /\ k.upc = h.upc
    <3>1. k.head = h.head
      BY <2>6, <2>8, WithBlocksWords
    <3>2. PICK C, n : C = h.blocks \cup {b} /\ n = b.len
      OBVIOUS
    <3>3. k = WithBlocks(h, C, v, n)
      BY <2>8, <3>2
    <3>4. k.upc = h.upc
      BY <3>3, WithBlocksUpc, Zenon
    <3>5. QED
      BY <3>1, <3>4
  <2> HIDE DEF g
  <2>10. Agree(h, k, h.blocks)
    BY <2>9 DEF Agree, Word
  <2>11. FrontOK(k, b)
    BY <2>4, <2>9 DEF FrontOK
  <2>12. InSegment(b) /\ \A c \in h.blocks : Disjoint(b, c)
    BY <2>3, <2>4 DEF InSegment, Disjoint
  <2>13. Gained(h, k, b)
    BY <2>4, <2>8, <2>10, <2>11, <2>12, HeapGrows
  <2>14. Handed(h, k, b, p, size, align)
    BY <2>3, <2>4, <2>5, <2>13 DEF Handed
  <2>15. QED
    BY <2>1, <2>7, <2>14
<1>3. QED
  BY <1>1, <1>2

LEMMA AllocateHands ==
  ASSUME NEW h, WholeHeap(h), NEW size \in Nat, NEW align, AlignOK(align), CanAllocate(h, size, align),
         ~ PadWraps(h, size, align)
  PROVE  LET r == allocate_or_null(h, size, align, "user")
         IN  (r.p = 0 /\ r.h = h) \/ \E b : Handed(h, r.h, b, r.p, size, align)
<1>1. h.upc \in BOOLEAN /\ align \in Nat \ {0}
  BY DEF WholeHeap, AlignOK
<1>2. CASE h.upc
  BY <1>2, PaddedHands DEF allocate_or_null
<1>3. CASE ~ h.upc
  BY <1>1, <1>3, MspaceHands DEF allocate_or_null
<1>4. QED
  BY <1>1, <1>2, <1>3

\* The count of an array is stored at the front of its own block.
WithCount(g, p, n) == [g EXCEPT !.head = Written([a \in {p} |-> n], @)]
LEMMA CountStored ==
  ASSUME NEW h, NEW g, NEW b, NEW p, NEW size \in Nat \ {0}, NEW align, WholeHeap(h),
         Handed(h, g, b, p, size, align), NEW n
  PROVE  Handed(h, WithCount(g, p, n), b, p, size, align) /\ Word(WithCount(g, p, n), p) = n
<1> DEFINE w == [a \in {p} |-> n]
           k == [g EXCEPT !.head = Written(w, @)]
<1>1. /\ WholeHeap(g) /\ g.upc = h.upc /\ b \notin h.blocks /\ g.blocks = h.blocks \cup {b} /\ Agree(h, g, h.blocks)
      /\ b \in HeapBlock /\ b.at = p /\ p \in Nat \ {0} /\ p % align = 0 /\ b.base <= p /\ p + size <= b.base + b.len
  BY DEF Handed, Gained
<1>2. PICK v : v = Written(w, g.head)
  OBVIOUS
<1>3. DOMAIN w = {p} /\ w[p] = n
  OBVIOUS
<1>4. k = [isinit |-> TRUE, upc |-> g.upc, base |-> HeapBase, size |-> HeapSize, blocks |-> g.blocks,
           head |-> v, foot |-> g.foot, fault |-> FALSE]
  <2> HIDE DEF w
  <2>1. k = WithWords(g, v)
    BY <1>2 DEF WithWords
  <2> HIDE DEF k
  <2>2. QED
    BY <1>1, <2>1, WithWordsIs
<1> HIDE DEF w, k
<1>5. k.upc = g.upc /\ k.blocks = g.blocks /\ k.head = Written(w, g.head) /\ k.foot = g.foot
  BY <1>2, <1>4
<1>6. k = [isinit |-> TRUE, upc |-> k.upc, base |-> HeapBase, size |-> HeapSize, blocks |-> k.blocks,
           head |-> k.head, foot |-> k.foot, fault |-> FALSE]
  BY <1>2, <1>4, <1>5
<1>8. Word(k, p) = n /\ \A a : a # p => Word(k, a) = Word(g, a)
  BY <1>3, <1>5 DEF Word, Written
<1>9. ASSUME NEW c \in h.blocks
      PROVE  Agree(g, k, {c})
  <2>1. c.base \in Nat /\ c.len \in Nat /\ b.base \in Nat /\ b.len \in Nat
    BY <1>1 DEF WholeHeap, HeapBlock
  <2>2. Disjoint(c, b)
    BY <1>1 DEF WholeHeap
  <2>3. p \notin Cells(c)
    BY <1>1, <2>1, <2>2 DEF Disjoint, Cells
  <2>4. QED
    BY <1>8, <2>3 DEF Agree
<1>10. Agree(h, k, h.blocks)
  BY <1>1, <1>9 DEF Agree
<1>11. \A c \in k.blocks : InSegment(c) /\ FrontOK(k, c)
  <2>1. ASSUME NEW c \in h.blocks
        PROVE  InSegment(c) /\ FrontOK(k, c)
    <3>1. c \in HeapBlock /\ InSegment(c) /\ FrontOK(g, c)
      BY <1>1 DEF WholeHeap
    <3>2. QED
      BY <1>5, <1>9, <3>1, FrontStays
  <2>2. InSegment(b) /\ FrontOK(g, b)
    BY <1>1 DEF WholeHeap
  <2>3. p - 8 # p /\ p - 16 # p
    BY <1>1
  <2>4. Word(k, p - 8) = Word(g, p - 8) /\ Word(k, p - 16) = Word(g, p - 16)
    BY <1>8, <2>3
  <2>5. FrontOK(k, b)
    BY <1>1, <1>5, <2>2, <2>4 DEF FrontOK
  <2>6. QED
    BY <1>1, <1>5, <2>1, <2>2, <2>5
<1>12. WholeHeap(k)
  BY <1>1, <1>5, <1>6, <1>11 DEF WholeHeap
<1>13. Handed(h, k, b, p, size, align)
  BY <1>1, <1>5, <1>10, <1>12 DEF Handed, Gained
<1>14. QED
  BY <1>8, <1>13 DEF k, w, WithCount

\* What is handed out and given back leaves the heap as it was.
LEMMA ThereAndBack ==
  ASSUME NEW h, WholeHeap(h), NEW g, NEW b, Gained(h, g, b)
  PROVE  Alike(h, deallocate(g, b.at, "user"))
<1> DEFINE k == deallocate(g, b.at, "user")
<1>1. WholeHeap(g) /\ g.upc = h.upc /\ b \notin h.blocks /\ g.blocks = h.blocks \cup {b} /\ Agree(h, g, h.blocks)
  BY DEF Gained
<1>2. Lost(g, k, b)
  BY <1>1, DeallocateLoses
<1> HIDE DEF k
<1>3. WholeHeap(k) /\ k.upc = g.upc /\ k.blocks = g.blocks \ {b} /\ Agree(g, k, g.blocks \ {b})
  BY <1>2 DEF Lost
<1>4. g.blocks \ {b} = h.blocks
  BY <1>1
<1>5. Agree(h, k, h.blocks)
  BY <1>1, <1>3, <1>4 DEF Agree
<1>6. Alike(h, k)
  BY <1>1, <1>3, <1>4, <1>5 DEF Alike
<1>7. QED
  BY <1>6 DEF k

-----------------------------------------------------------------------------
(* What the user holds                                                     *)

HeldThing == [at : Nat, type : HeapTypes, n : Nat, made : {"raw", "new", "array"}]

\* The address deallocate is called with.
Front(o) == IF o.made = "array" THEN o.at - Padding(o.type) ELSE o.at
Things(o) == Elements(o.at, o.type, o.n)
AllThings(M) == UNION {Things(o) : o \in M}
Made(held) == {o \in held : o.made # "raw"}

\* The thing o lies in block b, aligned and with room for all its elements, and the count
\* of an array is at the front of the block.
SitsIn(h, o, b) ==
  /\ b \in h.blocks /\ b.at = Front(o) /\ b.base <= o.at
  /\ o.at % o.type.align = 0 /\ o.at + o.n * o.type.size <= b.base + b.len
  /\ o.made = "array" => Front(o) \in Cells(b) /\ Word(h, Front(o)) = o.n

\* What the user holds are the blocks of the heap, one each.
HeldOK(h, held, objs) ==
  /\ WholeHeap(h) /\ held \subseteq HeldThing /\ IsFiniteSet(held)
  /\ \A o \in held : (\E b : SitsIn(h, o, b)) /\ (o.made = "new" => o.n = 1)
  /\ \A o, x \in held : Front(o) = Front(x) => o = x
  /\ Cardinality(held) = Cardinality(h.blocks)
  /\ objs = AllThings(Made(held))

\* The shared heap and what the user holds of it, between two calls: as HeldOK says, unless
\* memory was handed out for a request that had wrapped.
HeldInv == HeldOK(heap, heapHeld, heapObjs)
HeapInv == heapWrapped \in BOOLEAN /\ (heapWrapped \/ HeldInv)

LEMMA TypeFacts ==
  ASSUME NEW T \in HeapTypes
  PROVE  T.size \in Nat \ {0} /\ AlignOK(T.align) /\ T.align \in Nat \ {0}
BY HeapAssumption DEF AlignOK

LEMMA PaddingFacts ==
  ASSUME NEW T \in HeapTypes
  PROVE  Padding(T) \in Nat /\ Padding(T) >= 8 /\ Padding(T) % T.align = 0
<1>1. T.align \in Nat \ {0} /\ 8 \in Nat
  BY TypeFacts
<1>2. QED
  BY <1>1, HeapUpFacts DEF Padding

\* Two blocks have two fronts.
LEMMA FrontUnique ==
  ASSUME NEW h, WholeHeap(h), NEW b \in h.blocks, NEW c \in h.blocks, b.at = c.at
  PROVE  b = c
<1>1. /\ b.base \in Nat /\ b.at \in Nat /\ b.len \in Nat \ {0}
      /\ c.base \in Nat /\ c.at \in Nat /\ c.len \in Nat \ {0}
  BY DEF WholeHeap, HeapBlock
<1>2. FrontOK(h, b) /\ FrontOK(h, c) /\ (b = c \/ Disjoint(b, c)) /\ h.upc \in BOOLEAN
  BY DEF WholeHeap
<1>3. CASE h.upc
  <2>1. b.at - b.base >= 16 /\ b.at <= b.base + b.len /\ c.at - c.base >= 16 /\ c.at <= c.base + c.len
    BY <1>2, <1>3 DEF FrontOK
  <2>2. QED
    BY <1>1, <1>2, <2>1 DEF Disjoint
<1>4. CASE ~ h.upc
  <2>1. b.at = b.base /\ c.at = c.base
    BY <1>2, <1>4 DEF FrontOK
  <2>2. SUFFICES ASSUME Disjoint(b, c)
                 PROVE  FALSE
    BY <1>2
  <2>3. b.base = c.base
    BY <2>1
  <2>4. QED
    BY <1>1, <2>2, <2>3 DEF Disjoint
<1>5. QED
  BY <1>2, <1>3, <1>4

\* The elements of a thing are in its block.
LEMMA ThingsInside ==
  ASSUME NEW h, WholeHeap(h), NEW o \in HeldThing, NEW b, SitsIn(h, o, b)
  PROVE  \A a \in Things(o) : b.base <= a /\ a < b.base + b.len /\ a \in Int
<1>1. b.base \in Nat /\ b.len \in Nat \ {0}
  BY DEF WholeHeap, HeapBlock, SitsIn
<1>2. PICK at, n, size : at = o.at /\ n = o.n /\ size = o.type.size
  OBVIOUS
<1>3. at \in Nat /\ n \in Nat /\ size \in Nat \ {0}
  BY <1>2, TypeFacts DEF HeldThing
<1>4. b.base <= at /\ at + n * size <= b.base + b.len
  BY <1>2 DEF SitsIn
<1>5. ASSUME NEW i \in 0..n - 1
      PROVE  b.base <= at + i * size /\ at + i * size < b.base + b.len /\ at + i * size \in Int
  <2>1. i \in Nat /\ i + 1 <= n
    BY <1>3
  <2>2. PICK x, y \in Int : x = i * size /\ y = n * size
    BY <1>3, <2>1
  <2>3. x >= 0 /\ x + size <= y
    <3>1. (i + 1) * size <= n * size
      BY <1>3, <2>1
    <3>2. (i + 1) * size = i * size + size
      BY <1>3, <2>1
    <3>3. i * size >= 0
      BY <1>3, <2>1
    <3>4. QED
      BY <1>3, <2>2, <3>1, <3>2, <3>3
  <2>4. QED
    BY <1>1, <1>3, <1>4, <2>2, <2>3
<1>6. QED
  BY <1>2, <1>5 DEF Things, Elements

LEMMA InThings ==
  ASSUME NEW M, NEW a
  PROVE  a \in AllThings(M) <=> \E o \in M : a \in Things(o)
BY DEF AllThings

LEMMA OneThingMore ==
  ASSUME NEW M, NEW o
  PROVE  AllThings(M \cup {o}) = AllThings(M) \cup Things(o)
<1>1. \A a : a \in AllThings(M \cup {o}) <=> a \in AllThings(M) \cup Things(o)
  BY InThings
<1>2. QED
  BY <1>1

\* A thing stays where it is as long as its block does.
LEMMA SittingStays ==
  ASSUME NEW h, NEW g, NEW o, NEW b, SitsIn(h, o, b), b \in g.blocks, Agree(h, g, {b})
  PROVE  SitsIn(g, o, b)
BY DEF SitsIn, Agree

\* The same blocks.
LEMMA HeldStays ==
  ASSUME NEW h, NEW held, NEW objs, HeldOK(h, held, objs), NEW g, Alike(h, g)
  PROVE  HeldOK(g, held, objs)
<1>1. WholeHeap(g) /\ g.blocks = h.blocks /\ Agree(h, g, h.blocks)
  BY DEF Alike
<1>2. ASSUME NEW o \in held
      PROVE  \E b : SitsIn(g, o, b)
  <2>1. PICK b : SitsIn(h, o, b)
    BY DEF HeldOK
  <2>2. b \in h.blocks
    BY <2>1 DEF SitsIn
  <2>3. Agree(h, g, {b}) /\ b \in g.blocks
    BY <1>1, <2>2 DEF Agree
  <2>4. QED
    BY <2>1, <2>3, SittingStays
<1>3. QED
  BY <1>1, <1>2 DEF HeldOK

\* A block more, and a thing in it.
LEMMA HeldAdds ==
  ASSUME NEW h, NEW held, NEW objs, HeldOK(h, held, objs), NEW g, NEW b, Gained(h, g, b),
         NEW o \in HeldThing, SitsIn(g, o, b), o.made = "new" => o.n = 1
  PROVE  HeldOK(g, held \cup {o}, IF o.made = "raw" THEN objs ELSE objs \cup Things(o))
<1>1. WholeHeap(g) /\ b \notin h.blocks /\ g.blocks = h.blocks \cup {b} /\ Agree(h, g, h.blocks)
  BY DEF Gained
<1>2. WholeHeap(h) /\ held \subseteq HeldThing /\ IsFiniteSet(held) /\ Cardinality(held) = Cardinality(h.blocks)
  BY DEF HeldOK
<1>3. ASSUME NEW x \in held
      PROVE  (\E c : SitsIn(g, x, c)) /\ Front(x) # Front(o)
  <2>1. PICK c : SitsIn(h, x, c)
    BY DEF HeldOK
  <2>2. c \in h.blocks /\ c.at = Front(x)
    BY <2>1 DEF SitsIn
  <2>3. Agree(h, g, {c}) /\ c \in g.blocks /\ b \in g.blocks /\ c # b
    BY <1>1, <2>2 DEF Agree
  <2>4. SitsIn(g, x, c)
    BY <2>1, <2>3, SittingStays
  <2>5. b.at = Front(o)
    BY DEF SitsIn
  <2>6. c.at # b.at
    BY <1>1, <2>3, FrontUnique
  <2>7. QED
    BY <2>2, <2>4, <2>5, <2>6
<1>4. o \notin held
  BY <1>3
<1>5. IsFiniteSet(held \cup {o}) /\ Cardinality(held \cup {o}) = Cardinality(held) + 1
  BY <1>2, <1>4, FS_AddElement
<1>6. Cardinality(g.blocks) = Cardinality(h.blocks) + 1
  <2>1. PICK B, C : B = h.blocks /\ C = B \cup {b}
    OBVIOUS
  <2>2. IsFiniteSet(B) /\ b \notin B
    BY <1>1, <1>2, <2>1 DEF WholeHeap
  <2>3. Cardinality(C) = Cardinality(B) + 1
    BY <2>1, <2>2, FS_AddElement
  <2>4. QED
    BY <1>1, <2>1, <2>3
<1>7. \A x \in held \cup {o} : (\E c : SitsIn(g, x, c)) /\ (x.made = "new" => x.n = 1)
  BY <1>3 DEF HeldOK
<1>8. \A x, y \in held \cup {o} : Front(x) = Front(y) => x = y
  BY <1>3 DEF HeldOK
<1>9. (IF o.made = "raw" THEN objs ELSE objs \cup Things(o)) = AllThings(Made(held \cup {o}))
  <2>1. objs = AllThings(Made(held))
    BY DEF HeldOK
  <2>2. CASE o.made = "raw"
    <3>1. Made(held \cup {o}) = Made(held)
      BY <2>2 DEF Made
    <3>2. QED
      BY <2>1, <2>2, <3>1
  <2>3. CASE o.made # "raw"
    <3>1. Made(held \cup {o}) = Made(held) \cup {o}
      BY <2>3 DEF Made
    <3>2. AllThings(Made(held) \cup {o}) = AllThings(Made(held)) \cup Things(o)
      BY OneThingMore
    <3>3. QED
      BY <2>1, <2>3, <3>1, <3>2
  <2>4. QED
    BY <2>2, <2>3
<1>10. Cardinality(held \cup {o}) = Cardinality(g.blocks) /\ held \cup {o} \subseteq HeldThing
  BY <1>2, <1>5, <1>6
<1>11. QED
  BY <1>1, <1>5, <1>7, <1>8, <1>9, <1>10 DEF HeldOK

\* A block less, and the thing that was in it.
LEMMA HeldDrops ==
  ASSUME NEW h, NEW held, NEW objs, HeldOK(h, held, objs), NEW o \in held
  PROVE  HeldOK(deallocate(h, Front(o), "user"), held \ {o}, IF o.made = "raw" THEN objs ELSE objs \ Things(o))
<1>1. WholeHeap(h) /\ held \subseteq HeldThing /\ IsFiniteSet(held) /\ Cardinality(held) = Cardinality(h.blocks)
  BY DEF HeldOK
<1>2. PICK b : SitsIn(h, o, b)
  BY DEF HeldOK
<1>3. b \in h.blocks /\ b.at = Front(o)
  BY <1>2 DEF SitsIn
<1>4. PICK g : g = deallocate(h, Front(o), "user")
  OBVIOUS
<1>5. Lost(h, g, b)
  BY <1>1, <1>3, <1>4, DeallocateLoses
<1>6. WholeHeap(g) /\ g.blocks = h.blocks \ {b} /\ Agree(h, g, h.blocks \ {b})
  BY <1>5 DEF Lost
<1>7. ASSUME NEW x \in held \ {o}
      PROVE  (\E c : SitsIn(g, x, c)) /\ Things(x) \cap Things(o) = {}
  <2>1. PICK c : SitsIn(h, x, c)
    BY DEF HeldOK
  <2>2. c \in h.blocks /\ c.at = Front(x)
    BY <2>1 DEF SitsIn
  <2>3. c # b
    BY <1>3, <2>2 DEF HeldOK
  <2>4. Agree(h, g, {c}) /\ c \in g.blocks
    BY <1>6, <2>2, <2>3 DEF Agree
  <2>5. SitsIn(g, x, c)
    BY <2>1, <2>4, SittingStays
  <2>6. Disjoint(b, c)
    BY <1>1, <1>3, <2>2, <2>3 DEF WholeHeap
  <2>7. b.base \in Nat /\ b.len \in Nat /\ c.base \in Nat /\ c.len \in Nat
    BY <1>1, <1>3, <2>2 DEF WholeHeap, HeapBlock
  <2>8. \A a \in Things(o) : b.base <= a /\ a < b.base + b.len /\ a \in Int
    BY <1>1, <1>2, ThingsInside
  <2>9. \A a \in Things(x) : c.base <= a /\ a < c.base + c.len /\ a \in Int
    BY <1>1, <2>1, ThingsInside
  <2>10. ASSUME NEW a, a \in Things(o), a \in Things(x)
         PROVE  FALSE
    <3>1. b.base <= a /\ a < b.base + b.len /\ a \in Int /\ c.base <= a /\ a < c.base + c.len
      BY <2>8, <2>9, <2>10
    <3>2. QED
      BY <2>6, <2>7, <3>1 DEF Disjoint
  <2>11. QED
    BY <2>5, <2>10
<1>8. IsFiniteSet(held \ {o}) /\ Cardinality(held \ {o}) = Cardinality(held) - 1
  BY <1>1, FS_RemoveElement
<1>9. Cardinality(g.blocks) = Cardinality(h.blocks) - 1
  <2>1. PICK B, C : B = h.blocks /\ C = B \ {b}
    OBVIOUS
  <2>2. IsFiniteSet(B) /\ b \in B
    BY <1>1, <1>3, <2>1 DEF WholeHeap
  <2>3. Cardinality(C) = Cardinality(B) - 1
    BY <2>1, <2>2, FS_RemoveElement
  <2>4. QED
    BY <1>6, <2>1, <2>3
<1>10. \A x \in held \ {o} : (\E c : SitsIn(g, x, c)) /\ (x.made = "new" => x.n = 1)
  BY <1>7 DEF HeldOK
<1>11. \A x, y \in held \ {o} : Front(x) = Front(y) => x = y
  BY DEF HeldOK
<1>12. (IF o.made = "raw" THEN objs ELSE objs \ Things(o)) = AllThings(Made(held \ {o}))
  <2>1. objs = AllThings(Made(held))
    BY DEF HeldOK
  <2>2. CASE o.made = "raw"
    <3>1. Made(held \ {o}) = Made(held)
      BY <2>2 DEF Made
    <3>2. QED
      BY <2>1, <2>2, <3>1
  <2>3. CASE o.made # "raw"
    <3>1. Made(held) = Made(held \ {o}) \cup {o} /\ Made(held \ {o}) \subseteq held \ {o}
      BY <2>3 DEF Made
    <3>2. \A x \in Made(held \ {o}) : Things(x) \cap Things(o) = {}
      BY <1>7, <3>1
    <3>3. AllThings(Made(held \ {o}) \cup {o}) = AllThings(Made(held \ {o})) \cup Things(o)
      BY OneThingMore
    <3>4. AllThings(Made(held \ {o})) \cap Things(o) = {}
      <4>1. ASSUME NEW a \in AllThings(Made(held \ {o})), a \in Things(o)
            PROVE  FALSE
        <5>1. PICK x \in Made(held \ {o}) : a \in Things(x)
          BY InThings
        <5>2. QED
          BY <3>2, <4>1, <5>1
      <4>2. QED
        BY <4>1
    <3>5. PICK U : U = AllThings(Made(held \ {o}))
      OBVIOUS
    <3>6. objs = U \cup Things(o) /\ U \cap Things(o) = {}
      BY <2>1, <3>1, <3>3, <3>4, <3>5
    <3>7. objs \ Things(o) = U
      BY <3>6
    <3>8. QED
      BY <2>3, <3>5, <3>7
  <2>4. QED
    BY <2>2, <2>3
<1>13. Cardinality(held \ {o}) = Cardinality(g.blocks) /\ held \ {o} \subseteq HeldThing
  BY <1>1, <1>8, <1>9
<1>14. HeldOK(g, held \ {o}, IF o.made = "raw" THEN objs ELSE objs \ Things(o))
  BY <1>6, <1>8, <1>10, <1>11, <1>12, <1>13 DEF HeldOK
<1>15. QED
  BY <1>4, <1>14

\* A thing that is its block's front, and an array behind its count.
LEMMA HandedSits ==
  ASSUME NEW h, NEW g, NEW b, NEW p, NEW T \in HeapTypes, NEW n \in Nat, NEW m \in {"raw", "new"},
         NEW size \in Nat, size = n * T.size, Handed(h, g, b, p, size, T.align),
         NEW o, o = [at |-> p, type |-> T, n |-> n, made |-> m]
  PROVE  o \in HeldThing /\ SitsIn(g, o, b)
<1>1. o.at = p /\ o.type = T /\ o.n = n /\ o.made = m
  OBVIOUS
<1>2. p \in Nat /\ p % T.align = 0 /\ b.at = p /\ b.base <= p /\ p + size <= b.base + b.len /\ b \in g.blocks
  BY DEF Handed, Gained
<1>3. o \in HeldThing
  BY <1>2 DEF HeldThing
<1>4. Front(o) = p /\ o.made # "array"
  BY <1>1 DEF Front
<1>5. QED
  BY <1>1, <1>2, <1>3, <1>4 DEF SitsIn

LEMMA HandedArray ==
  ASSUME NEW h, WholeHeap(h), NEW g, NEW b, NEW p, NEW T \in HeapTypes, NEW n \in Nat, NEW bytes \in Nat,
         bytes = n * T.size, NEW size \in Nat, size = Padding(T) + bytes, NEW al, al = IF T.align < 8 THEN 8 ELSE T.align,
         Handed(h, g, b, p, size, al), Word(g, p) = n,
         NEW o, o = [at |-> p + Padding(T), type |-> T, n |-> n, made |-> "array"]
  PROVE  o \in HeldThing /\ SitsIn(g, o, b)
<1>1. o.at = p + Padding(T) /\ o.type = T /\ o.n = n /\ o.made = "array"
  OBVIOUS
<1>2. p \in Nat /\ p % al = 0 /\ b.at = p /\ b.base <= p /\ p + size <= b.base + b.len /\ b \in g.blocks /\ b \in HeapBlock
  BY DEF Handed, Gained
<1>3. Padding(T) \in Nat /\ Padding(T) >= 8 /\ Padding(T) % T.align = 0
  BY PaddingFacts
<1>4. T.align \in Nat \ {0} /\ AlignOK(T.align)
  BY TypeFacts
<1>5. p % T.align = 0
  <2>1. CASE T.align < 8
    <3>1. T.align \in {1, 2, 4, 8}
      <4>1. T.align % 16 = 0 => T.align \in {1, 2, 4, 8}
        BY <1>4, <2>1
      <4>2. QED
        BY <1>4, <4>1 DEF AlignOK
    <3>2. 8 % T.align = 0 /\ 8 \in Nat \ {0} /\ p % 8 = 0
      BY <1>2, <2>1, <3>1
    <3>3. \A x \in Int : x % 8 = 0 => x % T.align = 0
      BY <1>4, <3>2, MultiplesDivide
    <3>4. QED
      BY <1>2, <3>2, <3>3
  <2>2. CASE ~ (T.align < 8)
    BY <1>2, <2>2
  <2>3. QED
    BY <2>1, <2>2
<1>6. (p + Padding(T)) % T.align = 0
  <2>1. PICK a, y : a = T.align /\ y = Padding(T)
    OBVIOUS
  <2>2. a \in Nat \ {0} /\ p \in Int /\ p % a = 0 /\ y \in Int /\ y % a = 0
    BY <1>2, <1>3, <1>4, <1>5, <2>1
  <2>3. (p + y) % a = 0
    BY <2>2, MultiplesAdd
  <2>4. QED
    BY <2>1, <2>3
<1>7. o \in HeldThing
  BY <1>2, <1>3 DEF HeldThing
<1>8. Front(o) = p
  BY <1>1, <1>2, <1>3 DEF Front
<1>9. p \in Cells(b)
  <2>1. b.base \in Nat /\ b.len \in Nat
    BY <1>2 DEF HeapBlock
  <2>2. QED
    BY <1>2, <1>3, <2>1 DEF Cells
<1>10. b.base <= p + Padding(T) /\ (p + Padding(T)) + bytes <= b.base + b.len
  <2>1. b.base \in Nat /\ b.len \in Nat
    BY <1>2 DEF HeapBlock
  <2>2. QED
    BY <1>2, <1>3, <2>1
<1>11. QED
  BY <1>1, <1>2, <1>6, <1>7, <1>8, <1>9, <1>10 DEF SitsIn

\* A heap with nothing in it.
LEMMA NewHeapOK ==
  ASSUME NEW u \in BOOLEAN
  PROVE  HeldOK(NewHeap(u, HeapBase, HeapSize), {}, {})
<1>1. PICK v, f : v = [a \in {} |-> 0] /\ f = [k \in Kinds |-> NoFootprint]
  OBVIOUS
<1>2. PICK h : h = NewHeap(u, HeapBase, HeapSize)
  OBVIOUS
<1>3. h = [isinit |-> TRUE, upc |-> u, base |-> HeapBase, size |-> HeapSize, blocks |-> {},
           head |-> v, foot |-> f, fault |-> FALSE]
  BY <1>1, <1>2 DEF NewHeap
<1>4. h.upc = u /\ h.blocks = {} /\ h.head = v /\ h.foot = f
  BY <1>3
<1>5. IsFiniteSet({}) /\ Cardinality({}) = 0 /\ LenSum({}) = 0
  BY FS_EmptySet, LenSumEmpty
<1>6. f = [k \in Kinds |-> IF k = "user" THEN [count |-> Cardinality({}), bytes |-> LenSum({})] ELSE NoFootprint]
  BY <1>1, <1>5 DEF NoFootprint
<1>7. WholeHeap(h)
  <2>1. h = [isinit |-> TRUE, upc |-> h.upc, base |-> HeapBase, size |-> HeapSize, blocks |-> h.blocks,
             head |-> h.head, foot |-> h.foot, fault |-> FALSE]
    BY <1>3, <1>4
  <2>2. QED
    BY <1>4, <1>5, <1>6, <2>1 DEF WholeHeap
<1>8. AllThings(Made({})) = {}
  BY InThings DEF Made
<1>9. QED
  BY <1>2, <1>4, <1>5, <1>7, <1>8 DEF HeldOK

LEMMA HeapInitInv == HeapInit => HeapInv
BY NewHeapOK DEF HeapInit, HeldInv, HeapInv

LEMMA UseUpcAllocInv ==
  ASSUME HeldInv, UseUpcAlloc
  PROVE  HeldInv'
<1>1. heapHeld = {} /\ heap' = NewHeap(TRUE, HeapBase, HeapSize) /\ heapHeld' = heapHeld /\ heapObjs' = heapObjs
  BY DEF UseUpcAlloc
<1>2. heapObjs = {}
  <2>1. heapObjs = AllThings(Made({}))
    BY <1>1 DEF HeldInv, HeldOK
  <2>2. QED
    BY <2>1, InThings DEF Made
<1>3. HeldOK(heap', heapHeld', heapObjs')
  BY <1>1, <1>2, NewHeapOK
<1>4. QED
  BY <1>3 DEF HeldInv

\* What allocate_or_null gives: nothing, or a block.
LEMMA GotOK ==
  ASSUME HeldInv, NEW size \in Nat, NEW align, AlignOK(align), CanAllocate(heap, size, align),
         ~ PadWraps(heap, size, align), NEW got, got = allocate_or_null(heap, size, align, "user")
  PROVE  \/ got.p = 0 /\ got.h = heap
         \/ got.p \in Nat \ {0} /\ \E b : Handed(heap, got.h, b, got.p, size, align)
<1>1. WholeHeap(heap)
  BY DEF HeldInv, HeldOK
<1>2. (got.p = 0 /\ got.h = heap) \/ \E b : Handed(heap, got.h, b, got.p, size, align)
  BY <1>1, AllocateHands
<1>3. \A b : Handed(heap, got.h, b, got.p, size, align) => got.p \in Nat \ {0}
  BY DEF Handed
<1>4. QED
  BY <1>2, <1>3

LEMMA AllocateNInv ==
  ASSUME HeldInv, NEW T \in HeapTypes, NEW n \in HeapCounts, AllocateN(T, n), ~ heapWrapped'
  PROVE  HeldInv'
<1>1. n \in Nat /\ T.size \in Nat \ {0} /\ AlignOK(T.align)
  BY HeapAssumption, TypeFacts
<1>2. PICK size \in Nat : size = WrapSize(n * T.size) /\ (n * T.size <= SizeMax => size = n * T.size)
  BY <1>1, WrapFits, WrapIsSize
<1>3. PICK got : got = allocate_or_null(heap, size, T.align, "user")
  OBVIOUS
<1>4. /\ CanAllocate(heap, size, T.align) /\ heap' = got.h /\ heapObjs' = heapObjs
      /\ heapHeld' = heapHeld \cup (IF got.p = 0 THEN {} ELSE {[at |-> got.p, type |-> T, n |-> n, made |-> "raw"]})
      /\ ~ PadWraps(heap, size, T.align) /\ (got.p # 0 => ~ (n * T.size > SizeMax))
  BY <1>2, <1>3 DEF AllocateN
<1>5. HeldOK(heap, heapHeld, heapObjs)
  BY DEF HeldInv
<1>6. HeldOK(heap', heapHeld', heapObjs')
  <2>1. CASE got.p = 0 /\ got.h = heap
    <3>1. heapHeld' = heapHeld
      BY <1>4, <2>1
    <3>2. QED
      BY <1>4, <1>5, <2>1, <3>1
  <2>2. CASE got.p \in Nat \ {0} /\ \E b : Handed(heap, got.h, b, got.p, size, T.align)
    <3>1. PICK b : Handed(heap, got.h, b, got.p, size, T.align)
      BY <2>2
    <3>2. PICK o : o = [at |-> got.p, type |-> T, n |-> n, made |-> "raw"]
      OBVIOUS
    <3>3. o \in HeldThing /\ SitsIn(got.h, o, b)
      <4>1. n * T.size \in Nat /\ SizeMax \in Nat /\ got.p # 0
        BY <1>1, <2>2, HeapAssumption
      <4>2. size = n * T.size
        BY <1>2, <1>4, <4>1
      <4>3. QED
        BY <1>1, <3>1, <3>2, <4>2, HandedSits
    <3>4. Gained(heap, got.h, b)
      BY <3>1 DEF Handed
    <3>5. o.made = "raw"
      BY <3>2
    <3>6. HeldOK(got.h, heapHeld \cup {o}, heapObjs)
      BY <1>5, <3>3, <3>4, <3>5, HeldAdds
    <3>7. heapHeld' = heapHeld \cup {o}
      BY <1>4, <2>2, <3>2
    <3>8. QED
      BY <1>4, <3>6, <3>7
  <2>3. QED
    BY <1>1, <1>3, <1>4, <2>1, <2>2, GotOK
<1>7. QED
  BY <1>6 DEF HeldInv

\* What is handed out and given back at once.
LEMMA GivenBack ==
  ASSUME HeldInv, NEW g, NEW b, NEW p, NEW size, NEW align, Handed(heap, g, b, p, size, align)
  PROVE  HeldOK(deallocate(g, p, "user"), heapHeld, heapObjs)
<1>1. HeldOK(heap, heapHeld, heapObjs) /\ WholeHeap(heap)
  BY DEF HeldInv, HeldOK
<1>2. Gained(heap, g, b) /\ b.at = p
  BY DEF Handed
<1>3. Alike(heap, deallocate(g, p, "user"))
  BY <1>1, <1>2, ThereAndBack
<1>4. QED
  BY <1>1, <1>3, HeldStays

LEMMA NewInv ==
  ASSUME HeldInv, NEW T \in HeapTypes, NEW throws \in BOOLEAN, New(T, throws), ~ heapWrapped'
  PROVE  HeldInv'
<1>1. T.size \in Nat /\ AlignOK(T.align) /\ T.size = 1 * T.size /\ 1 \in Nat
  BY TypeFacts
<1>2. PICK got : got = allocate_or_null(heap, T.size, T.align, "user")
  OBVIOUS
<1>3. /\ CanAllocate(heap, T.size, T.align) /\ ~ PadWraps(heap, T.size, T.align)
      /\ heap' = IF throws THEN deallocate(got.h, got.p, "user") ELSE got.h
      /\ IF got.p = 0 \/ throws THEN heapHeld' = heapHeld /\ heapObjs' = heapObjs
         ELSE /\ heapHeld' = heapHeld \cup {[at |-> got.p, type |-> T, n |-> 1, made |-> "new"]}
              /\ heapObjs' = heapObjs \cup {got.p}
  BY <1>2 DEF New
<1>4. HeldOK(heap, heapHeld, heapObjs)
  BY DEF HeldInv
<1>5. HeldOK(heap', heapHeld', heapObjs')
  <2>1. CASE got.p = 0 /\ got.h = heap
    <3>1. deallocate(got.h, got.p, "user") = heap
      BY <2>1 DEF deallocate
    <3>2. heap' = heap /\ heapHeld' = heapHeld /\ heapObjs' = heapObjs
      BY <1>3, <2>1, <3>1
    <3>3. QED
      BY <1>4, <3>2
  <2>2. CASE got.p \in Nat \ {0} /\ \E b : Handed(heap, got.h, b, got.p, T.size, T.align)
    <3>1. PICK b : Handed(heap, got.h, b, got.p, T.size, T.align)
      BY <2>2
    <3>2. CASE throws
      <4>1. heap' = deallocate(got.h, got.p, "user") /\ heapHeld' = heapHeld /\ heapObjs' = heapObjs
        BY <1>3, <3>2
      <4>2. QED
        BY <3>1, <4>1, GivenBack
    <3>3. CASE ~ throws
      <4>1. PICK o : o = [at |-> got.p, type |-> T, n |-> 1, made |-> "new"]
        OBVIOUS
      <4>2. o \in HeldThing /\ SitsIn(got.h, o, b)
        BY <1>1, <3>1, <4>1, HandedSits
      <4>3. Gained(heap, got.h, b)
        BY <3>1 DEF Handed
      <4>4. o.made = "new" /\ o.n = 1 /\ o.at = got.p /\ o.type = T
        BY <4>1
      <4>5. Things(o) = {got.p}
        <5>1. 0 .. 1 - 1 = {0} /\ got.p + 0 * T.size = got.p
          BY <1>1, <2>2
        <5>2. Things(o) = {got.p + i * T.size : i \in {0}}
          BY <4>4, <5>1 DEF Things, Elements
        <5>3. QED
          BY <5>1, <5>2
      <4>6. HeldOK(got.h, heapHeld \cup {o}, heapObjs \cup {got.p})
        BY <1>4, <4>2, <4>3, <4>4, <4>5, HeldAdds
      <4>7. heap' = got.h /\ heapHeld' = heapHeld \cup {o} /\ heapObjs' = heapObjs \cup {got.p}
        BY <1>3, <2>2, <3>3, <4>1
      <4>8. QED
        BY <4>6, <4>7
    <3>4. QED
      BY <3>2, <3>3
  <2>3. QED
    BY <1>1, <1>2, <1>3, <2>1, <2>2, GotOK
<1>6. QED
  BY <1>5 DEF HeldInv

\* The product and the sum that new_array takes do not wrap.
LEMMA NoWrap ==
  ASSUME NEW T \in HeapTypes, NEW n \in Nat, ~ TooMany(T, n)
  PROVE  WrapSize(Padding(T) + WrapSize(n * T.size)) = Padding(T) + n * T.size
<1>1. PICK pad \in Nat, size \in Nat \ {0} : pad = Padding(T) /\ size = T.size
  BY PaddingFacts, TypeFacts
<1>2. SizeMax \in Nat
  BY HeapAssumption
<1>3. PICK m \in Int : m = SizeMax - pad
  BY <1>2
<1>4. PICK q \in Int, y \in Int : q = m \div size /\ y = q * size /\ y <= m
  <2>1. PICK q \in Int, r \in Int : q = m \div size /\ r = m % size
    OBVIOUS
  <2>2. m = q * size + r /\ 0 <= r
    BY <2>1
  <2>3. PICK y \in Int : y = q * size
    OBVIOUS
  <2>4. y <= m
    BY <2>2, <2>3
  <2>5. QED
    BY <2>1, <2>3, <2>4
<1>5. n <= q
  BY <1>1, <1>3, <1>4 DEF TooMany
<1>6. PICK x \in Nat : x = n * size
  BY <1>1
<1>8. x <= y
  BY <1>4, <1>5, <1>6
<1>9. pad + x <= SizeMax /\ x <= SizeMax
  BY <1>2, <1>3, <1>4, <1>8
<1>10. WrapSize(x) = x /\ WrapSize(pad + x) = pad + x
  BY <1>9, WrapFits
<1>11. QED
  BY <1>1, <1>6, <1>10

LEMMA NewArrayInv ==
  ASSUME HeldInv, NEW T \in HeapTypes, NEW n \in HeapCounts, NEW built \in 0..n, NewArray(T, n, built),
         ~ heapWrapped'
  PROVE  HeldInv'
<1>1. n \in Nat /\ T.size \in Nat \ {0} /\ AlignOK(T.align) /\ Padding(T) \in Nat /\ Padding(T) >= 8
  BY HeapAssumption, TypeFacts, PaddingFacts
<1>2. HeldOK(heap, heapHeld, heapObjs) /\ WholeHeap(heap)
  BY DEF HeldInv, HeldOK
<1>3. CASE TooMany(T, n)
  <2>1. heap' = heap /\ heapHeld' = heapHeld /\ heapObjs' = heapObjs
    BY <1>3 DEF NewArray, heapVars
  <2>2. QED
    BY <1>2, <2>1 DEF HeldInv
<1>4. CASE ~ TooMany(T, n)
  <2>1. PICK bytes \in Nat : bytes = n * T.size
    BY <1>1
  <2>2. PICK size : size = Padding(T) + bytes
    OBVIOUS
  <2>3. size \in Nat \ {0} /\ WrapSize(Padding(T) + WrapSize(n * T.size)) = size
    BY <1>1, <1>4, <2>1, <2>2, NoWrap
  <2>4. PICK al : al = IF T.align < 8 THEN 8 ELSE T.align
    OBVIOUS
  <2>5. AlignOK(al)
    BY <1>1, <2>4 DEF AlignOK
  <2>6. PICK got : got = allocate_or_null(heap, size, al, "user")
    OBVIOUS
  <2>7. PICK h : h = [got.h EXCEPT !.head = Written([a \in {got.p} |-> n], @)]
    OBVIOUS
  <2>8. /\ CanAllocate(heap, size, al) /\ ~ PadWraps(heap, size, al)
        /\ heap' = CASE got.p = 0 -> heap
                     [] got.p # 0 /\ built = n -> h
                     [] got.p # 0 /\ built < n -> deallocate(h, got.p, "user")
        /\ IF got.p = 0 \/ built < n THEN heapHeld' = heapHeld /\ heapObjs' = heapObjs
           ELSE /\ heapHeld' = heapHeld \cup {[at |-> got.p + Padding(T), type |-> T, n |-> n, made |-> "array"]}
                /\ heapObjs' = heapObjs \cup Elements(got.p + Padding(T), T, n)
    BY <1>4, <2>3, <2>4, <2>6, <2>7 DEF NewArray
  <2>9. HeldOK(heap', heapHeld', heapObjs')
    <3>1. CASE got.p = 0
      <4>1. heap' = heap /\ heapHeld' = heapHeld /\ heapObjs' = heapObjs
        BY <2>8, <3>1
      <4>2. QED
        BY <1>2, <4>1
    <3>2. CASE got.p \in Nat \ {0} /\ \E b : Handed(heap, got.h, b, got.p, size, al)
      <4>1. PICK b : Handed(heap, got.h, b, got.p, size, al)
        BY <3>2
      <4>2. Handed(heap, h, b, got.p, size, al) /\ Word(h, got.p) = n
        <5>1. h = WithCount(got.h, got.p, n)
          BY <2>7 DEF WithCount
        <5>2. PICK g, q : g = got.h /\ q = got.p
          OBVIOUS
        <5>3. Handed(heap, g, b, q, size, al) /\ h = WithCount(g, q, n)
          BY <4>1, <5>1, <5>2
        <5>4. Handed(heap, h, b, q, size, al) /\ Word(h, q) = n
          BY <1>2, <2>3, <5>3, CountStored
        <5>5. QED
          BY <5>2, <5>4
      <4>3. CASE built < n
        <5>1. heap' = deallocate(h, got.p, "user") /\ heapHeld' = heapHeld /\ heapObjs' = heapObjs
          BY <1>1, <2>8, <3>2, <4>3
        <5>2. QED
          BY <4>2, <5>1, GivenBack
      <4>4. CASE built = n
        <5>1. PICK o : o = [at |-> got.p + Padding(T), type |-> T, n |-> n, made |-> "array"]
          OBVIOUS
        <5>2. o \in HeldThing /\ SitsIn(h, o, b)
          <6>1. size \in Nat
            BY <2>3
          <6>2. QED
            BY <1>1, <1>2, <2>1, <2>2, <2>4, <4>2, <5>1, <6>1, HandedArray
        <5>3. Gained(heap, h, b)
          BY <4>2 DEF Handed
        <5>4. o.made = "array" /\ Things(o) = Elements(got.p + Padding(T), T, n)
          BY <5>1 DEF Things
        <5>5. HeldOK(h, heapHeld \cup {o}, heapObjs \cup Things(o))
          BY <1>2, <5>2, <5>3, <5>4, HeldAdds
        <5>6. heap' = h /\ heapHeld' = heapHeld \cup {o} /\ heapObjs' = heapObjs \cup Things(o)
          BY <1>1, <2>8, <3>2, <4>4, <5>1, <5>4
        <5>7. QED
          BY <5>5, <5>6
      <4>5. QED
        BY <1>1, <4>3, <4>4
    <3>3. QED
      BY <2>3, <2>5, <2>6, <2>8, <3>1, <3>2, GotOK
  <2>10. QED
    BY <2>9 DEF HeldInv
<1>5. QED
  BY <1>3, <1>4

\* deallocate, delete_ and delete_array.
LEMMA DropInv ==
  ASSUME HeldInv, NEW o \in heapHeld, Deallocate(o) \/ Delete(o) \/ DeleteArray(o)
  PROVE  HeldInv'
<1>1. HeldOK(heap, heapHeld, heapObjs) /\ o \in HeldThing
  BY DEF HeldInv, HeldOK
<1>2. HeldOK(deallocate(heap, Front(o), "user"), heapHeld \ {o}, IF o.made = "raw" THEN heapObjs ELSE heapObjs \ Things(o))
  BY <1>1, HeldDrops
<1>3. heap' = deallocate(heap, Front(o), "user") /\ heapHeld' = heapHeld \ {o}
      /\ heapObjs' = IF o.made = "raw" THEN heapObjs ELSE heapObjs \ Things(o)
  <2>1. CASE Deallocate(o)
    BY <2>1 DEF Deallocate, Front
  <2>2. CASE Delete(o)
    <3>1. o.made = "new" /\ o.n = 1 /\ o.at \in Nat /\ o.type.size \in Nat
      BY <1>1, <2>2, TypeFacts DEF Delete, HeldOK, HeldThing
    <3>2. 0 .. 1 - 1 = {0} /\ o.at + 0 * o.type.size = o.at
      BY <3>1
    <3>3. Things(o) = {o.at + i * o.type.size : i \in {0}}
      BY <3>1, <3>2 DEF Things, Elements
    <3>4. Things(o) = {o.at}
      BY <3>2, <3>3
    <3>5. QED
      BY <2>2, <3>1, <3>4 DEF Delete, Front
  <2>3. CASE DeleteArray(o)
    <3>1. o.made = "array"
      BY <2>3 DEF DeleteArray
    <3>2. Front(o) = o.at - Padding(o.type)
      BY <3>1 DEF Front
    <3>3. PICK b : SitsIn(heap, o, b)
      BY <1>1 DEF HeldOK
    <3>4. Word(heap, o.at - Padding(o.type)) = o.n
      BY <3>1, <3>2, <3>3 DEF SitsIn
    <3>5. QED
      BY <2>3, <3>1, <3>2, <3>4 DEF DeleteArray, Things
  <2>4. QED
    BY <2>1, <2>2, <2>3
<1>4. HeldOK(heap', heapHeld', heapObjs')
  BY <1>2, <1>3
<1>5. QED
  BY <1>4 DEF HeldInv

\* The invariant says that the heap is exact.
LEMMA HeapInvExact == HeapInv => HeapExact
<1> SUFFICES ASSUME HeldInv
             PROVE  HeapExact
  BY DEF HeapInv, HeapExact
<1>1. HeldOK(heap, heapHeld, heapObjs) /\ WholeHeap(heap)
  BY DEF HeldInv, HeldOK
<1>2. PICK u, B, v, f : heap.upc = u /\ heap.blocks = B /\ heap.head = v /\ heap.foot = f
  OBVIOUS
<1>3. heap = [isinit |-> TRUE, upc |-> u, base |-> HeapBase, size |-> HeapSize, blocks |-> B,
              head |-> v, foot |-> f, fault |-> FALSE]
  BY <1>1, <1>2 DEF WholeHeap
<1>4. ~ heap.fault /\ heap.base = HeapBase /\ heap.size = HeapSize
  BY <1>3
<1>5. FootprintsExact(heap)
  <2> SUFFICES ASSUME NEW k \in Kinds, NEW mine, mine = {b \in heap.blocks : b.kind = k}
               PROVE  /\ heap.foot[k].count = Cardinality(mine)
                      /\ heap.foot[k].bytes = LenSum(mine)
    BY DEF FootprintsExact, LenSum
  <2>1. heap.foot[k] = IF k = "user" THEN [count |-> Cardinality(heap.blocks), bytes |-> LenSum(heap.blocks)]
                       ELSE NoFootprint
    BY <1>1 DEF WholeHeap
  <2>2. \A b \in heap.blocks : b.kind = "user"
    BY <1>1 DEF WholeHeap, HeapBlock
  <2>3. CASE k = "user"
    <3>1. mine = heap.blocks
      BY <2>2, <2>3
    <3>2. QED
      BY <2>1, <2>3, <3>1
  <2>4. CASE k # "user"
    <3>1. mine = {}
      BY <2>2, <2>4
    <3>2. Cardinality({}) = 0
      BY FS_EmptySet
    <3>3. QED
      BY <2>1, <2>4, <3>1, <3>2, LenSumEmpty DEF NoFootprint
  <2>5. QED
    BY <2>3, <2>4
<1>6. BlocksApart(heap)
  <2> SUFFICES ASSUME NEW b \in heap.blocks
               PROVE  /\ heap.base <= b.base /\ b.base + b.len <= heap.base + heap.size
                      /\ heap.upc => b.at - b.base >= 16
                      /\ \A c \in heap.blocks \ {b} : b.base + b.len <= c.base \/ c.base + c.len <= b.base
    BY DEF BlocksApart
  <2>1. InSegment(b) /\ FrontOK(heap, b)
    BY <1>1 DEF WholeHeap
  <2>2. \A c \in heap.blocks \ {b} : b.base + b.len <= c.base \/ c.base + c.len <= b.base
    BY <1>1 DEF WholeHeap, Disjoint
  <2>3. heap.upc => b.at - b.base >= 16
    BY <2>1 DEF FrontOK
  <2>4. heap.base <= b.base /\ b.base + b.len <= heap.base + heap.size
    BY <1>4, <2>1 DEF InSegment
  <2>5. QED
    BY <2>2, <2>3, <2>4
<1>7. HeldExact
  <2>1. Cardinality(heapHeld) = Cardinality(heap.blocks)
    BY <1>1 DEF HeldOK
  <2>2. ASSUME NEW o \in heapHeld
        PROVE  \E b \in heap.blocks :
                 /\ b.at = IF o.made = "array" THEN o.at - Padding(o.type) ELSE o.at
                 /\ o.at % o.type.align = 0 /\ o.at + o.n * o.type.size <= b.base + b.len
    <3>1. PICK b : SitsIn(heap, o, b)
      BY <1>1 DEF HeldOK
    <3>2. QED
      BY <3>1 DEF SitsIn, Front
  <2>3. heapObjs = UNION {Elements(o.at, o.type, o.n) : o \in {x \in heapHeld : x.made # "raw"}}
    BY <1>1 DEF HeldOK, AllThings, Made, Things
  <2>4. QED
    BY <2>1, <2>2, <2>3 DEF HeldExact
<1>8. QED
  BY <1>4, <1>5, <1>6, <1>7 DEF HeapExact

\* Every reachable state of the shared heap meets the invariant: the blocks are apart and in
\* the segment, the words below them and the counts in them are those that were stored, and
\* each is held by exactly one owner.  This is so at any width of size_t, up to the first
\* request whose size wraps: allocate_or_null does not check size + alignment over UPC, and
\* allocate<T>(n) does not check its product.
THEOREM HeapInvariant == HeapSpec => []HeapInv
<1>1. HeapInv /\ [HeapNext]_heapVars => HeapInv'
  <2> SUFFICES ASSUME HeapInv, [HeapNext]_heapVars
               PROVE  HeapInv'
    OBVIOUS
  <2>1. CASE UNCHANGED heapVars
    BY <2>1 DEF HeapInv, HeldInv, heapVars
  <2>2. CASE HeapNext
    <3>1. HeldInv /\ heapWrapped = FALSE
      BY <2>2 DEF HeapInv, HeapNext
    <3>2. heapWrapped' \in BOOLEAN
      <4>1. heap.upc \in BOOLEAN
        BY <3>1 DEF HeldInv, HeldOK, WholeHeap
      <4>2. \A size, align : PadWraps(heap, size, align) \in BOOLEAN
        BY <4>1 DEF PadWraps
      <4>3. UseUpcAlloc => heapWrapped' = heapWrapped
        BY DEF UseUpcAlloc
      <4>4. \A T, n : AllocateN(T, n) => heapWrapped' \in BOOLEAN
        BY DEF AllocateN
      <4>5. \A T, throws : New(T, throws) => heapWrapped' \in BOOLEAN
        BY <4>2 DEF New
      <4>6. \A T, n, built : NewArray(T, n, built) => heapWrapped' \in BOOLEAN
        <5> SUFFICES ASSUME NEW T, NEW n, NEW built, NewArray(T, n, built)
                     PROVE  heapWrapped' \in BOOLEAN
          OBVIOUS
        <5>1. CASE TooMany(T, n)
          BY <3>1, <5>1 DEF NewArray, heapVars
        <5>2. CASE ~ TooMany(T, n)
          <6>1. \E size, align : heapWrapped' = PadWraps(heap, size, align)
            BY <5>2 DEF NewArray
          <6>2. QED
            BY <4>2, <6>1
        <5>3. QED
          BY <5>1, <5>2
      <4>7. \A o : Deallocate(o) \/ Delete(o) \/ DeleteArray(o) => heapWrapped' = heapWrapped
        BY DEF Deallocate, Delete, DeleteArray
      <4>8. QED
        BY <2>2, <3>1, <4>3, <4>4, <4>5, <4>6, <4>7 DEF HeapNext
    <3>3. ASSUME ~ heapWrapped'
          PROVE  HeldInv'
      <4>1. CASE UseUpcAlloc
        BY <3>1, <4>1, UseUpcAllocInv
      <4>2. ASSUME NEW T \in HeapTypes, NEW n \in HeapCounts, AllocateN(T, n)
            PROVE  HeldInv'
        BY <3>1, <3>3, <4>2, AllocateNInv
      <4>3. ASSUME NEW T \in HeapTypes, NEW throws \in BOOLEAN, New(T, throws)
            PROVE  HeldInv'
        BY <3>1, <3>3, <4>3, NewInv
      <4>4. ASSUME NEW T \in HeapTypes, NEW n \in HeapCounts, NEW built, NewArray(T, n, built)
            PROVE  HeldInv'
        <5>1. built \in 0..n
          BY <4>4 DEF NewArray
        <5>2. QED
          BY <3>1, <3>3, <4>4, <5>1, NewArrayInv
      <4>5. ASSUME NEW o \in heapHeld, Deallocate(o) \/ Delete(o) \/ DeleteArray(o)
            PROVE  HeldInv'
        BY <3>1, <4>5, DropInv
      <4>6. QED
        BY <2>2, <4>1, <4>2, <4>3, <4>4, <4>5 DEF HeapNext
    <3>4. QED
      BY <3>2, <3>3 DEF HeapInv
  <2>3. QED
    BY <2>1, <2>2
<1>2. QED
  BY <1>1, HeapInitInv, PTL DEF HeapSpec

\* allocate, new_ and their kin keep the heap, its headers and its footprints exact, for
\* every segment, every set of element types and every width of size_t: over dlmalloc and
\* over UPC, when memory runs out, when new_array refuses a product that would wrap and when
\* a constructor throws.  The exception is the code's own: after a request that it lets wrap
\* (size + alignment over UPC, n * sizeof(T) in allocate<T>(n)) nothing is claimed.
THEOREM HeapStaysExact == HeapSpec => []HeapExact
BY HeapInvariant, HeapInvExact, PTL
=============================================================================
