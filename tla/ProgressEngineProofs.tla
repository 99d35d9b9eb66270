------------------------ MODULE ProgressEngineProofs ------------------------
(***************************************************************************)
(* ProgressInv is an inductive invariant of ProgressEngine, for any number *)
(* of threads, personas, lpcs and promises, any caps and any nesting of    *)
(* scopes and callbacks.                                                   *)
(***************************************************************************)
EXTENDS ProgressEngine, SequenceTheorems, FiniteSetTheorems, TLAPS

-----------------------------------------------------------------------------
(* Stacks and queues                                                       *)

LEMMA AppendFacts ==
  ASSUME NEW S, NEW s \in Seq(S), NEW e \in S
  PROVE  /\ Append(s, e) \in Seq(S) /\ Len(s) \in Nat /\ DOMAIN s = 1 .. Len(s)
         /\ Len(Append(s, e)) = Len(s) + 1 /\ DOMAIN Append(s, e) = 1 .. Len(s) + 1
         /\ \A k \in 1 .. Len(s) : Append(s, e)[k] = s[k]
         /\ Append(s, e)[Len(s) + 1] = e
<1>1. /\ Append(s, e) \in Seq(S) /\ Len(Append(s, e)) = Len(s) + 1
      /\ \A k \in 1 .. Len(s) : Append(s, e)[k] = s[k]
      /\ Append(s, e)[Len(s) + 1] = e
  BY AppendProperties
<1>2. /\ Len(s) \in Nat /\ DOMAIN s = 1 .. Len(s)
      /\ DOMAIN Append(s, e) = 1 .. Len(Append(s, e))
  BY <1>1, LenProperties
<1>3. QED
  BY <1>1, <1>2

LEMMA SubSeqFacts ==
  ASSUME NEW S, NEW s \in Seq(S), NEW a \in Nat \ {0}, NEW b \in 0 .. Len(s)
  PROVE  /\ SubSeq(s, a, b) \in Seq(S) /\ Len(s) \in Nat /\ DOMAIN s = 1 .. Len(s)
         /\ Len(SubSeq(s, a, b)) = (IF a <= b THEN b - a + 1 ELSE 0)
         /\ DOMAIN SubSeq(s, a, b) = 1 .. b - a + 1
         /\ \A k \in 1 .. b - a + 1 : SubSeq(s, a, b)[k] = s[a + k - 1]
<1>1. Len(s) \in Nat /\ DOMAIN s = 1 .. Len(s) /\ \A k \in 1 .. Len(s) : s[k] \in S
  BY LenProperties
<1>2. a \in Int /\ b \in Int /\ \A k \in a .. b : s[k] \in S
  BY <1>1
<1>3. /\ SubSeq(s, a, b) \in Seq(S)
      /\ Len(SubSeq(s, a, b)) = (IF a <= b THEN b - a + 1 ELSE 0)
      /\ \A k \in 1 .. b - a + 1 : SubSeq(s, a, b)[k] = s[a + k - 1]
  BY <1>2, SubSeqProperties
<1>4. DOMAIN SubSeq(s, a, b) = 1 .. Len(SubSeq(s, a, b))
  BY <1>3, LenProperties
<1>5. DOMAIN SubSeq(s, a, b) = 1 .. b - a + 1
  BY <1>1, <1>3, <1>4
<1>6. QED
  BY <1>1, <1>3, <1>5

\* The stack without its top.
LEMMA PopFacts ==
  ASSUME NEW S, NEW s \in Seq(S), Len(s) >= 1
  PROVE  /\ SubSeq(s, 1, Len(s) - 1) \in Seq(S) /\ Len(s) \in Nat /\ DOMAIN s = 1 .. Len(s)
         /\ Len(SubSeq(s, 1, Len(s) - 1)) = Len(s) - 1
         /\ DOMAIN SubSeq(s, 1, Len(s) - 1) = 1 .. Len(s) - 1
         /\ \A k \in 1 .. Len(s) - 1 : SubSeq(s, 1, Len(s) - 1)[k] = s[k]
<1>1. Len(s) \in Nat /\ Len(s) - 1 \in 0 .. Len(s) /\ 1 \in Nat \ {0}
  BY LenProperties
<1>2. PICK b \in 0 .. Len(s) : b = Len(s) - 1
  BY <1>1
<1>3. /\ SubSeq(s, 1, b) \in Seq(S) /\ DOMAIN s = 1 .. Len(s)
      /\ Len(SubSeq(s, 1, b)) = (IF 1 <= b THEN b - 1 + 1 ELSE 0)
      /\ DOMAIN SubSeq(s, 1, b) = 1 .. b - 1 + 1
      /\ \A k \in 1 .. b - 1 + 1 : SubSeq(s, 1, b)[k] = s[1 + k - 1]
  BY <1>1, SubSeqFacts
<1>4. QED
  BY <1>1, <1>2, <1>3

LEMMA TailFacts ==
  ASSUME NEW S, NEW s \in Seq(S), s # <<>>
  PROVE  /\ Tail(s) \in Seq(S) /\ Head(s) = s[1] /\ Head(s) \in S
         /\ Len(s) \in Nat /\ Len(s) >= 1 /\ DOMAIN s = 1 .. Len(s)
         /\ DOMAIN Tail(s) = 1 .. Len(s) - 1
         /\ \A k \in 1 .. Len(s) - 1 : Tail(s)[k] = s[k + 1]
<1>1. /\ Head(s) \in S /\ Tail(s) \in Seq(S) /\ Len(Tail(s)) = Len(s) - 1
      /\ \A k \in 1 .. Len(Tail(s)) : Tail(s)[k] = s[k + 1]
  BY HeadTailProperties
<1>2. Len(s) \in Nat /\ DOMAIN s = 1 .. Len(s) /\ DOMAIN Tail(s) = 1 .. Len(Tail(s))
  BY <1>1, LenProperties
<1>3. Len(s) # 0
  BY EmptySeq
<1>4. Head(s) = s[1]
  BY DEF Head
<1>5. QED
  BY <1>1, <1>2, <1>3, <1>4

\* R is Q with e behind what waits at w; with the first n of w moved to the
\* empty place b; without the first of b, which is h.
AppendAt(D, Q, R, w, e, L) ==
  /\ DOMAIN Q = D /\ DOMAIN R = D /\ w \in D /\ L \in Nat
  /\ DOMAIN Q[w] = 1 .. L /\ DOMAIN R[w] = 1 .. L + 1
  /\ \A k \in 1 .. L : R[w][k] = Q[w][k]
  /\ R[w][L + 1] = e
  /\ \A v \in D : v # w => R[v] = Q[v]
MoveAt(D, Q, R, w, b, L, n, c) ==
  /\ DOMAIN Q = D /\ DOMAIN R = D /\ w \in D /\ b \in D /\ w # b
  /\ L \in Nat /\ n \in Nat /\ c \in Nat /\ c = (IF L < n THEN L ELSE n)
  /\ DOMAIN Q[w] = 1 .. L /\ DOMAIN Q[b] = {} /\ DOMAIN R[b] = 1 .. c /\ DOMAIN R[w] = 1 .. L - n
  /\ \A k \in 1 .. c : R[b][k] = Q[w][k]
  /\ \A k \in 1 .. L - n : R[w][k] = Q[w][n + k]
  /\ \A v \in D : v # w /\ v # b => R[v] = Q[v]
TakeAt(D, Q, R, b, h, L) ==
  /\ DOMAIN Q = D /\ DOMAIN R = D /\ b \in D /\ L \in Nat /\ L >= 1
  /\ DOMAIN Q[b] = 1 .. L /\ DOMAIN R[b] = 1 .. L - 1 /\ h = Q[b][1]
  /\ \A k \in 1 .. L - 1 : R[b][k] = Q[b][k + 1]
  /\ \A v \in D : v # b => R[v] = Q[v]

\* What comes to wait in a place waits there and nowhere else.
LEMMA AppendSpots ==
  ASSUME NEW D, NEW Q, NEW R, NEW w, NEW e, NEW L, AppendAt(D, Q, R, w, e, L),
         ~In(Q, e), NEW x, Once(Q, x)
  PROVE  (In(R, x) <=> In(Q, x) \/ x = e) /\ Once(R, x)
<1> USE DEF AppendAt
<1>3. ASSUME NEW v \in D, NEW j \in DOMAIN Q[v]
      PROVE  j \in DOMAIN R[v] /\ R[v][j] = Q[v][j]
  <2>1. CASE v = w
    BY <2>1
  <2>2. QED
    BY <2>1
<1>4. ASSUME NEW v \in D, NEW j \in DOMAIN R[v]
      PROVE  \/ j \in DOMAIN Q[v] /\ R[v][j] = Q[v][j]
             \/ v = w /\ j = L + 1 /\ R[v][j] = e
  <2>1. CASE v = w
    BY <2>1
  <2>2. QED
    BY <2>1
<1>5. \A v \in D : \A j \in DOMAIN Q[v] : Q[v][j] # e
  BY DEF In
<1>6. In(R, x) <=> In(Q, x) \/ x = e
  <2>1. In(R, x) => In(Q, x) \/ x = e
    BY <1>4 DEF In
  <2>2. In(Q, x) => In(R, x)
    BY <1>3 DEF In
  <2>3. L + 1 \in DOMAIN R[w]
    OBVIOUS
  <2>4. In(R, e)
    BY <2>3 DEF In
  <2>5. QED
    BY <2>1, <2>2, <2>4
<1>7. ASSUME NEW v \in D, NEW j \in DOMAIN R[v], NEW u \in D, NEW k \in DOMAIN R[u],
             R[v][j] = x, R[u][k] = x
      PROVE  v = u /\ j = k
  BY <1>4, <1>5, <1>7 DEF Once
<1>8. QED
  BY <1>6, <1>7 DEF Once

Appended(D, S, Q, R, w, e) ==
  /\ Q \in [D -> Seq(S)] /\ R \in [D -> Seq(S)] /\ w \in D /\ e \in S
  /\ R[w] = Append(Q[w], e)
  /\ \A v \in D : v # w => R[v] = Q[v]

LEMMA QueueAppend ==
  ASSUME NEW D, NEW S, NEW Q, NEW R, NEW w, NEW e, Appended(D, S, Q, R, w, e),
         ~In(Q, e), NEW x, Once(Q, x)
  PROVE  (In(R, x) <=> In(Q, x) \/ x = e) /\ Once(R, x)
<1> USE DEF Appended
<1>0. PICK L \in Nat : L = Len(Q[w])
  BY LenProperties
<1>1. /\ DOMAIN Q[w] = 1 .. L /\ DOMAIN R[w] = 1 .. L + 1
      /\ \A k \in 1 .. L : R[w][k] = Q[w][k]
      /\ R[w][L + 1] = e
  BY <1>0, AppendFacts
<1>2. DOMAIN Q = D /\ DOMAIN R = D
  OBVIOUS
<1>3. AppendAt(D, Q, R, w, e, L)
  BY <1>1, <1>2 DEF AppendAt
<1>4. QED
  BY <1>3, AppendSpots

\* A burst that detaches the front of an inbox moves what waits there.
LEMMA MoveSpots ==
  ASSUME NEW D, NEW Q, NEW R, NEW w, NEW b, NEW L, NEW n, NEW c, MoveAt(D, Q, R, w, b, L, n, c),
         NEW x, Once(Q, x)
  PROVE  (In(R, x) <=> In(Q, x)) /\ Once(R, x)
<1> USE DEF MoveAt
<1>1. ASSUME NEW j \in DOMAIN R[b]
      PROVE  j \in DOMAIN Q[w] /\ j <= n /\ R[b][j] = Q[w][j]
  OBVIOUS
<1>2. ASSUME NEW j \in DOMAIN R[w]
      PROVE  j \in Nat /\ j > 0 /\ n + j \in DOMAIN Q[w] /\ R[w][j] = Q[w][n + j]
  OBVIOUS
<1>3. ASSUME NEW v \in D, NEW j \in DOMAIN R[v], v # w, v # b
      PROVE  j \in DOMAIN Q[v] /\ R[v][j] = Q[v][j]
  BY <1>3
<1>4. ASSUME NEW v \in D, NEW j \in DOMAIN R[v], R[v][j] = x
      PROVE  \E u \in D : \E k \in DOMAIN Q[u] : Q[u][k] = x
  <2>1. CASE v = b
    BY <1>1, <1>4, <2>1
  <2>2. CASE v = w
    BY <1>2, <1>4, <2>2
  <2>3. CASE v # b /\ v # w
    BY <1>3, <1>4, <2>3
  <2>4. QED
    BY <2>1, <2>2, <2>3
<1>5. ASSUME NEW v \in D, NEW j \in DOMAIN Q[v], Q[v][j] = x
      PROVE  \E u \in D : \E k \in DOMAIN R[u] : R[u][k] = x
  <2>1. CASE v # w
    BY <1>5, <2>1
  <2>2. CASE v = w /\ j <= c
    <3>1. j \in DOMAIN R[b] /\ R[b][j] = x
      BY <1>5, <2>2
    <3>2. QED
      BY <3>1
  <2>3. CASE v = w /\ ~(j <= c)
    <3>1. j \in 1 .. L
      BY <2>3
    <3>2. j > n /\ c = n
      BY <2>3, <3>1
    <3>3. PICK k \in Nat : j = n + k /\ k > 0
      <4>1. j - n \in Nat /\ j = n + (j - n) /\ j - n > 0
        BY <3>1, <3>2
      <4>2. QED
        BY <4>1
    <3>4. k \in DOMAIN R[w] /\ R[w][k] = x
      BY <1>5, <2>3, <3>1, <3>3
    <3>5. QED
      BY <3>4
  <2>4. QED
    BY <2>1, <2>2, <2>3
<1>6. ASSUME NEW v \in D, NEW j \in DOMAIN Q[v], NEW u \in D, NEW k \in DOMAIN Q[u],
             Q[v][j] = x, Q[u][k] = x
      PROVE  v = u /\ j = k
  BY <1>6 DEF Once
<1>7. ASSUME NEW v \in D, NEW j \in DOMAIN R[v], NEW u \in D, NEW k \in DOMAIN R[u],
             R[v][j] = x, R[u][k] = x
      PROVE  v = u /\ j = k
  <2>1. CASE v # w /\ v # b
    BY <1>1, <1>2, <1>3, <1>6, <1>7, <2>1
  <2>2. CASE u # w /\ u # b
    BY <1>1, <1>2, <1>3, <1>6, <1>7, <2>2
  <2>3. CASE v = b /\ u = b
    BY <1>1, <1>6, <1>7, <2>3
  <2>4. CASE v = w /\ u = w
    <3>1. n + j = n + k
      <4>1. PICK i : i = n + j /\ i \in DOMAIN Q[w] /\ Q[w][i] = x
        BY <1>2, <1>7, <2>4
      <4>2. PICK l : l = n + k /\ l \in DOMAIN Q[w] /\ Q[w][l] = x
        BY <1>2, <1>7, <2>4
      <4>3. QED
        BY <1>6, <4>1, <4>2
    <3>2. QED
      BY <1>2, <1>7, <2>4, <3>1
  <2>5. CASE v = w /\ u = b
    <3>1. n + j = k
      <4>1. PICK i : i = n + j /\ i \in DOMAIN Q[w] /\ Q[w][i] = x
        BY <1>2, <1>7, <2>5
      <4>2. k \in DOMAIN Q[w] /\ Q[w][k] = x
        BY <1>1, <1>7, <2>5
      <4>3. QED
        BY <1>6, <4>1, <4>2
    <3>2. QED
      BY <1>1, <1>2, <1>7, <2>5, <3>1
  <2>6. CASE v = b /\ u = w
    <3>1. n + k = j
      <4>1. PICK i : i = n + k /\ i \in DOMAIN Q[w] /\ Q[w][i] = x
        BY <1>2, <1>7, <2>6
      <4>2. j \in DOMAIN Q[w] /\ Q[w][j] = x
        BY <1>1, <1>7, <2>6
      <4>3. QED
        BY <1>6, <4>1, <4>2
    <3>2. QED
      BY <1>1, <1>2, <1>7, <2>6, <3>1
  <2>7. QED
    BY <2>1, <2>2, <2>3, <2>4, <2>5, <2>6
<1>8. QED
  BY <1>4, <1>5, <1>7 DEF In, Once

Moved(D, S, Q, R, w, b, n) ==
  /\ Q \in [D -> Seq(S)] /\ R \in [D -> Seq(S)] /\ w \in D /\ b \in D /\ w # b /\ n \in Nat
  /\ Q[b] = <<>> /\ R[b] = Taken(Q[w], n)
  /\ R[w] = SubSeq(Q[w], n + 1, Len(Q[w]))
  /\ \A v \in D : v # w /\ v # b => R[v] = Q[v]

LEMMA QueueMove ==
  ASSUME NEW D, NEW S, NEW Q, NEW R, NEW w, NEW b, NEW n, Moved(D, S, Q, R, w, b, n),
         NEW x, Once(Q, x)
  PROVE  (In(R, x) <=> In(Q, x)) /\ Once(R, x)
<1> USE DEF Moved
<1>0. PICK s \in Seq(S) : s = Q[w]
  OBVIOUS
<1>1. PICK L \in Nat : L = Len(s) /\ DOMAIN s = 1 .. L
  BY LenProperties
<1>2. PICK c \in 0 .. L : c = (IF L < n THEN L ELSE n)
  OBVIOUS
<1>3. DOMAIN R[b] = 1 .. c /\ \A k \in 1 .. c : R[b][k] = s[k]
  <2>1. R[b] = SubSeq(s, 1, c) /\ 1 \in Nat \ {0} /\ c \in 0 .. Len(s)
    BY <1>0, <1>1, <1>2 DEF Taken
  <2>2. /\ DOMAIN SubSeq(s, 1, c) = 1 .. c - 1 + 1
        /\ \A k \in 1 .. c - 1 + 1 : SubSeq(s, 1, c)[k] = s[1 + k - 1]
    BY <2>1, SubSeqFacts
  <2>3. c - 1 + 1 = c /\ \A k \in 1 .. c : 1 + k - 1 = k
    BY <1>2
  <2>4. QED
    BY <2>1, <2>2, <2>3
<1>4. /\ DOMAIN R[w] = 1 .. L - n
      /\ \A k \in 1 .. L - n : R[w][k] = s[n + k]
  <2>0. PICK a \in Nat \ {0} : a = n + 1
    OBVIOUS
  <2>1. R[w] = SubSeq(s, a, L) /\ L \in 0 .. Len(s)
    BY <1>0, <1>1, <2>0
  <2>2. /\ DOMAIN SubSeq(s, a, L) = 1 .. L - a + 1
        /\ \A k \in 1 .. L - a + 1 : SubSeq(s, a, L)[k] = s[a + k - 1]
    BY <2>1, SubSeqFacts
  <2>3. L - a + 1 = L - n /\ \A k \in 1 .. L - n : a + k - 1 = n + k
    BY <1>1, <2>0
  <2>4. QED
    BY <2>1, <2>2, <2>3
<1>5. DOMAIN Q = D /\ DOMAIN R = D /\ DOMAIN Q[b] = {}
  OBVIOUS
<1>6. c \in Nat /\ DOMAIN Q[w] = 1 .. L
  BY <1>0, <1>1, <1>2
<1>7. (\A k \in 1 .. c : R[b][k] = Q[w][k]) /\ (\A k \in 1 .. L - n : R[w][k] = Q[w][n + k])
  BY <1>0, <1>3, <1>4
<1>8. MoveAt(D, Q, R, w, b, L, n, c)
  BY <1>2, <1>3, <1>4, <1>5, <1>6, <1>7 DEF MoveAt
<1>9. QED
  BY <1>8, MoveSpots

\* What is taken from the front of a burst waits no longer.
LEMMA TakeSpots ==
  ASSUME NEW D, NEW Q, NEW R, NEW b, NEW h, NEW L, TakeAt(D, Q, R, b, h, L),
         Once(Q, h), NEW x, Once(Q, x)
  PROVE  (In(R, x) <=> In(Q, x) /\ x # h) /\ Once(R, x) /\ In(Q, h)
<1> USE DEF TakeAt
<1>1. 1 \in DOMAIN Q[b] /\ In(Q, h)
  BY DEF In
<1>2. ASSUME NEW j \in DOMAIN R[b]
      PROVE  j \in Nat /\ j >= 1 /\ j + 1 \in DOMAIN Q[b] /\ R[b][j] = Q[b][j + 1]
  OBVIOUS
<1>3. ASSUME NEW v \in D, NEW j \in DOMAIN Q[v], v # b \/ j # 1
      PROVE  \E k \in DOMAIN R[v] : R[v][k] = Q[v][j]
  <2>1. CASE v # b
    BY <2>1
  <2>2. CASE v = b
    <3>1. PICK k \in 1 .. L - 1 : j = k + 1
      <4>1. j - 1 \in 1 .. L - 1 /\ j = (j - 1) + 1
        BY <1>3, <2>2
      <4>2. QED
        BY <4>1
    <3>2. QED
      BY <2>2, <3>1
  <2>3. QED
    BY <2>1, <2>2
<1>4. ASSUME NEW v \in D, NEW j \in DOMAIN Q[v], NEW u \in D, NEW k \in DOMAIN Q[u],
             Q[v][j] = Q[u][k], Q[v][j] \in {x, h}
      PROVE  v = u /\ j = k
  BY <1>4 DEF Once
<1>5. ASSUME NEW v \in D, NEW j \in DOMAIN R[v], R[v][j] = x
      PROVE  In(Q, x) /\ x # h
  <2>1. CASE v = b
    <3>1. In(Q, x)
      BY <1>2, <1>5, <2>1 DEF In
    <3>2. j + 1 # 1 /\ j + 1 \in DOMAIN Q[b] /\ Q[b][j + 1] = x
      BY <1>2, <1>5, <2>1
    <3>3. x # h
      BY <1>1, <1>4, <3>2
    <3>4. QED
      BY <3>1, <3>3
  <2>2. CASE v # b
    <3>1. j \in DOMAIN Q[v] /\ Q[v][j] = x
      BY <1>5, <2>2
    <3>2. QED
      BY <1>1, <1>4, <2>2, <3>1 DEF In
  <2>3. QED
    BY <2>1, <2>2
<1>6. In(Q, x) /\ x # h => In(R, x)
  BY <1>3 DEF In
<1>7. ASSUME NEW v \in D, NEW j \in DOMAIN R[v], NEW u \in D, NEW k \in DOMAIN R[u],
             R[v][j] = x, R[u][k] = x
      PROVE  v = u /\ j = k
  <2>1. CASE v = b /\ u = b
    <3>1. j + 1 = k + 1
      BY <1>2, <1>4, <1>7, <2>1
    <3>2. QED
      BY <1>2, <1>7, <2>1, <3>1
  <2>2. CASE v # b
    BY <1>2, <1>4, <1>7, <2>2
  <2>3. CASE u # b
    BY <1>2, <1>4, <1>7, <2>3
  <2>4. QED
    BY <2>1, <2>2, <2>3
<1>8. QED
  BY <1>1, <1>5, <1>6, <1>7 DEF In, Once

Took(D, S, Q, R, b) ==
  /\ Q \in [D -> Seq(S)] /\ R \in [D -> Seq(S)] /\ b \in D /\ Q[b] # <<>>
  /\ R[b] = Tail(Q[b])
  /\ \A v \in D : v # b => R[v] = Q[v]

LEMMA QueueTake ==
  ASSUME NEW D, NEW S, NEW Q, NEW R, NEW b, Took(D, S, Q, R, b),
         Once(Q, Head(Q[b])), NEW x, Once(Q, x)
  PROVE  (In(R, x) <=> In(Q, x) /\ x # Head(Q[b])) /\ Once(R, x) /\ In(Q, Head(Q[b]))
<1> USE DEF Took
<1>1. PICK L \in Nat : L = Len(Q[b])
  BY LenProperties
<1>2. /\ L >= 1 /\ DOMAIN Q[b] = 1 .. L
      /\ DOMAIN R[b] = 1 .. L - 1 /\ Head(Q[b]) = Q[b][1]
      /\ \A k \in 1 .. L - 1 : R[b][k] = Q[b][k + 1]
  BY <1>1, TailFacts
<1>3. DOMAIN Q = D /\ DOMAIN R = D
  OBVIOUS
<1>4. PICK h : h = Head(Q[b]) /\ h = Q[b][1]
  BY <1>2
<1>5. QED
  <2>1. /\ L >= 1 /\ DOMAIN Q[b] = 1 .. L /\ DOMAIN R[b] = 1 .. L - 1
        /\ \A k \in 1 .. L - 1 : R[b][k] = Q[b][k + 1]
    BY <1>2
  <2>2. h = Q[b][1] /\ Once(Q, h)
    BY <1>4
  <2>3. TakeAt(D, Q, R, b, h, L)
    BY <1>3, <2>1, <2>2 DEF TakeAt
  <2>4. QED
    BY <1>4, <2>2, <2>3, TakeSpots

-----------------------------------------------------------------------------
(* Types, and what a step leaves alone                                     *)

LEMMA ThreadTypes ==
  ASSUME TypeOK, NEW t \in Threads
  PROVE  /\ t \in Personas /\ t # Nobody
         /\ frames[t] \in Seq(Frame) /\ Len(frames[t]) \in Nat /\ DOMAIN frames[t] = 1 .. Len(frames[t])
         /\ \A k \in DOMAIN frames[t] : frames[t][k] \in Frame
         /\ scopes[t] \in Seq(Scope) /\ Len(scopes[t]) \in Nat /\ DOMAIN scopes[t] = 1 .. Len(scopes[t])
         /\ \A k \in DOMAIN scopes[t] : scopes[t][k] \in Scope
         /\ unique[t] \in Seq(Personas) /\ Len(unique[t]) \in Nat
         /\ DOMAIN unique[t] = 1 .. Len(unique[t])
         /\ \A k \in DOMAIN unique[t] : unique[t][k] \in Personas
         /\ prog[t] \in Call /\ prog[t].depth \in Nat /\ prog[t].at \in Nat
<1>1. t \in Personas /\ t # Nobody
  BY ProgressAssumption DEF Personas
<1>2. /\ frames[t] \in Seq(Frame) /\ scopes[t] \in Seq(Scope) /\ unique[t] \in Seq(Personas)
      /\ prog[t] \in Call
  BY DEF TypeOK
<1>3. /\ Len(frames[t]) \in Nat /\ DOMAIN frames[t] = 1 .. Len(frames[t])
      /\ \A k \in DOMAIN frames[t] : frames[t][k] \in Frame
  BY <1>2, LenProperties
<1>4. /\ Len(scopes[t]) \in Nat /\ DOMAIN scopes[t] = 1 .. Len(scopes[t])
      /\ \A k \in DOMAIN scopes[t] : scopes[t][k] \in Scope
  BY <1>2, LenProperties
<1>5. /\ Len(unique[t]) \in Nat /\ DOMAIN unique[t] = 1 .. Len(unique[t])
      /\ \A k \in DOMAIN unique[t] : unique[t][k] \in Personas
  BY <1>2, LenProperties
<1>6. prog[t].depth \in Nat /\ prog[t].at \in Nat
  BY <1>2 DEF Call
<1>7. QED
  BY <1>1, <1>2, <1>3, <1>4, <1>5, <1>6

Elsewhere(t) ==
  \A u \in Threads : u # t =>
    /\ scopes'[u] = scopes[u] /\ unique'[u] = unique[u] /\ progressing'[u] = progressing[u]
    /\ burstable'[u] = burstable[u] /\ prog'[u] = prog[u] /\ frames'[u] = frames[u]

\* What the step of a thread has to keep.
ThreadOK(t) == /\ LevelsOK(progressing[t], burstable[t], prog[t], frames[t])
               /\ StackOK(scopes[t], unique[t], prog[t], frames[t])

LEMMA ThreadsStep ==
  ASSUME ProgressInv, NEW t \in Threads, Elsewhere(t), ThreadOK(t)'
  PROVE  \A u \in Threads : ThreadOK(u)'
<1>1. ASSUME NEW u \in Threads, u # t
      PROVE  ThreadOK(u)'
  BY <1>1 DEF Elsewhere, ProgressInv, ThreadOK
<1>2. QED
  BY <1>1

\* What waits and what runs, one by one.
ItemsWait == \A i \in Items : (In(Waiting, i) <=> state[i] = "queued") /\ Once(Waiting, i)
ItemsRun ==
  /\ \A i \in Items : Runs(i) <=> state[i] = "running"
  /\ \A t, u \in Threads : \A j \in DOMAIN frames[t], k \in DOMAIN frames[u] :
       frames[t][j].item = frames[u][k].item /\ frames[t][j].item \in Items => t = u /\ j = k
PromisesWait == \A x \in Promises : (In(Waiting, x) <=> pro[x].deferred > 0) /\ Once(Waiting, x)
PromisesCount ==
  \A x \in Promises :
    /\ \A p \in Personas : x \in SeqSet(pros[p]) => p = Home[x]
    /\ pro[x].countdown = pro[x].deferred + pending[x] + (IF state[x] = "new" THEN 1 ELSE 0)

LEMMA InvParts ==
  ProgressInv <=> /\ TypeOK /\ ScopesExact /\ ItemsWait /\ ItemsRun /\ PromisesWait /\ PromisesCount
                  /\ \A t \in Threads : ThreadOK(t)
BY DEF ProgressInv, ExactlyOnce, PromisesExact, ItemsWait, ItemsRun, PromisesWait, PromisesCount, ThreadOK

LEMMA InvPartsNext ==
  ProgressInv' <=> /\ TypeOK' /\ ScopesExact' /\ ItemsWait' /\ ItemsRun' /\ PromisesWait' /\ PromisesCount'
                   /\ \A t \in Threads : ThreadOK(t)'
<1>1. (ProgressInv <=> /\ TypeOK /\ ScopesExact /\ ItemsWait /\ ItemsRun /\ PromisesWait /\ PromisesCount
                       /\ \A t \in Threads : ThreadOK(t))'
  BY InvParts, PTL
<1>2. QED
  BY <1>1

\* Waiting, place by place.
WaitingIs ==
  /\ Waiting \in [Places -> Seq(Items \cup Promises)]
  /\ \A p \in Personas, l \in Levels : /\ <<"peer", p, l>> \in Places /\ <<"self", p, l>> \in Places
                                       /\ Waiting[<<"peer", p, l>>] = peer[p][l]
                                       /\ Waiting[<<"self", p, l>>] = self[p][l]
  /\ \A p \in Personas : <<"pros", p, "user">> \in Places /\ Waiting[<<"pros", p, "user">>] = pros[p]
  /\ \A t \in Threads : /\ <<"burst", t, "user">> \in Places
                        /\ Waiting[<<"burst", t, "user">>] = prog[t].batch

\* The place of each kind.
LEMMA PlaceFacts ==
  ASSUME NEW w \in Places
  PROVE  \/ \E p \in Personas, l \in Levels : w = <<"peer", p, l>> \/ w = <<"self", p, l>>
         \/ \E p \in Personas : w = <<"pros", p, "user">>
         \/ \E t \in Threads : w = <<"burst", t, "user">>
BY DEF Places

LEMMA WaitingTyped == TypeOK => WaitingIs
<1> SUFFICES ASSUME TypeOK
             PROVE  WaitingIs
  OBVIOUS
<1>1. ASSUME NEW p \in Personas, NEW l \in Levels
      PROVE  /\ <<"peer", p, l>> \in Places /\ <<"self", p, l>> \in Places
             /\ Waiting[<<"peer", p, l>>] = peer[p][l]
             /\ Waiting[<<"self", p, l>>] = self[p][l]
  BY DEF Places, Waiting
<1>2. ASSUME NEW p \in Personas
      PROVE  <<"pros", p, "user">> \in Places /\ Waiting[<<"pros", p, "user">>] = pros[p]
  BY DEF Places, Waiting
<1>3. ASSUME NEW t \in Threads
      PROVE  <<"burst", t, "user">> \in Places /\ Waiting[<<"burst", t, "user">>] = prog[t].batch
  BY DEF Places, Waiting
<1>4. ASSUME NEW w \in Places
      PROVE  Waiting[w] \in Seq(Items \cup Promises)
  <2>1. ASSUME NEW p \in Personas, NEW l \in Levels
        PROVE  peer[p][l] \in Seq(Items \cup Promises) /\ self[p][l] \in Seq(Items \cup Promises)
    <3>1. peer[p][l] \in Seq(Items) /\ self[p][l] \in Seq(Items)
      BY DEF TypeOK
    <3>2. Items \subseteq Items \cup Promises
      OBVIOUS
    <3>3. QED
      BY <3>1, <3>2, SeqMonotonic
  <2>2. ASSUME NEW p \in Personas
        PROVE  pros[p] \in Seq(Items \cup Promises)
    <3>1. pros[p] \in Seq(Promises) /\ Promises \subseteq Items \cup Promises
      BY DEF TypeOK
    <3>2. QED
      BY <3>1, SeqMonotonic
  <2>3. ASSUME NEW t \in Threads
        PROVE  prog[t].batch \in Seq(Items \cup Promises)
    BY DEF TypeOK, Call
  <2>4. CASE \E p \in Personas, l \in Levels : w = <<"peer", p, l>> \/ w = <<"self", p, l>>
    <3>1. PICK p \in Personas, l \in Levels : w = <<"peer", p, l>> \/ w = <<"self", p, l>>
      BY <2>4
    <3>2. Waiting[w] = peer[p][l] \/ Waiting[w] = self[p][l]
      BY <1>1, <3>1
    <3>3. QED
      BY <2>1, <3>2
  <2>5. CASE \E p \in Personas : w = <<"pros", p, "user">>
    BY <1>2, <2>2, <2>5
  <2>6. CASE \E t \in Threads : w = <<"burst", t, "user">>
    BY <1>3, <2>3, <2>6
  <2>7. QED
    BY <2>4, <2>5, <2>6, PlaceFacts
<1>5. Waiting \in [Places -> Seq(Items \cup Promises)]
  BY <1>4 DEF Waiting
<1>6. QED
  BY <1>1, <1>2, <1>3, <1>5 DEF WaitingIs

LEMMA WaitingTypedNext == TypeOK' => WaitingIs'
BY WaitingTyped, PTL

-----------------------------------------------------------------------------
(* Stacks that grow and shrink at the top                                  *)

\* R is the stack S, of L entries, with e on top.
Pushed(S, R, L, e) ==
  /\ L \in Nat /\ Len(S) = L /\ Len(R) = L + 1 /\ DOMAIN S = 1 .. L /\ DOMAIN R = 1 .. L + 1
  /\ \A k \in 1 .. L : R[k] = S[k]
  /\ R[L + 1] = e

LEMMA PushSeq ==
  ASSUME NEW T, NEW s \in Seq(T), NEW e \in T
  PROVE  Pushed(s, Append(s, e), Len(s), e) /\ Append(s, e) \in Seq(T)
BY AppendFacts DEF Pushed

LEMMA PopSeq ==
  ASSUME NEW T, NEW s \in Seq(T), Len(s) >= 1
  PROVE  /\ Pushed(SubSeq(s, 1, Len(s) - 1), s, Len(s) - 1, s[Len(s)])
         /\ SubSeq(s, 1, Len(s) - 1) \in Seq(T)
<1>1. PICK L \in Nat : L = Len(s) - 1 /\ Len(s) = L + 1
  <2>1. Len(s) \in Nat /\ Len(s) - 1 \in Nat /\ Len(s) = (Len(s) - 1) + 1
    BY LenProperties
  <2>2. QED
    BY <2>1
<1>2. PICK r : r = SubSeq(s, 1, Len(s) - 1)
  OBVIOUS
<1>3. /\ r \in Seq(T) /\ Len(r) = L /\ DOMAIN r = 1 .. L /\ DOMAIN s = 1 .. L + 1
      /\ \A k \in 1 .. L : s[k] = r[k]
  BY <1>1, <1>2, PopFacts
<1>4. QED
  BY <1>1, <1>2, <1>3 DEF Pushed

\* The chain stays exact when scopes that are not unique come, go or change.
LEMMA ChainSame ==
  ASSUME NEW S, NEW R, NEW U, ChainExact(S, U),
         \A j \in DOMAIN S : S[j].kind = "unique" => j \in DOMAIN R /\ R[j] = S[j],
         \A j \in DOMAIN R : R[j].kind = "unique" => j \in DOMAIN S /\ R[j] = S[j]
  PROVE  ChainExact(R, U)
<1>1. ASSUME NEW n, NEW j \in DOMAIN S, Chained(S, U, n, j)
      PROVE  j \in DOMAIN R /\ Chained(R, U, n, j)
  BY <1>1 DEF Chained
<1>2. ASSUME NEW n, NEW j \in DOMAIN R, Chained(R, U, n, j)
      PROVE  j \in DOMAIN S /\ Chained(S, U, n, j)
  BY <1>2 DEF Chained
<1>3. \A j \in DOMAIN R : R[j].kind = "unique" => \E n \in DOMAIN U : Chained(R, U, n, j)
  BY <1>1 DEF ChainExact
<1>4. \A n \in DOMAIN U : \E j \in DOMAIN R : Chained(R, U, n, j)
  BY <1>1 DEF ChainExact
<1>5. ASSUME NEW m \in DOMAIN U, NEW n \in DOMAIN U, NEW i \in DOMAIN R, NEW j \in DOMAIN R,
             Chained(R, U, m, i), Chained(R, U, n, j)
      PROVE  m < n <=> i < j
  BY <1>2, <1>5 DEF ChainExact
<1>6. QED
  BY <1>3, <1>4, <1>5 DEF ChainExact

\* A unique scope s for the persona p, the last one of the chain V.
UniqueOn(S, R, U, V, L, N, s, p) == Pushed(S, R, L, s) /\ Pushed(U, V, N, p) /\ s.kind = "unique"

\* A unique scope for a persona that is not in the chain yet.
LEMMA ChainPush ==
  ASSUME NEW S, NEW R, NEW U, NEW V, NEW L, NEW N, NEW s, NEW p, ChainExact(S, U),
         UniqueOn(S, R, U, V, L, N, s, p), s.persona = p,
         \A n \in DOMAIN U : U[n] # p, \A j \in DOMAIN S : S[j].persona # p
  PROVE  ChainExact(R, V)
<1> USE DEF Pushed, UniqueOn
<1>1. \A n \in 1 .. N, j \in 1 .. L : Chained(R, V, n, j) <=> Chained(S, U, n, j)
  BY DEF Chained
<1>2. \A n \in 1 .. N : ~ Chained(R, V, n, L + 1)
  BY DEF Chained
<1>3. \A j \in 1 .. L : ~ Chained(R, V, N + 1, j)
  BY DEF Chained
<1>4. Chained(R, V, N + 1, L + 1)
  BY DEF Chained
<1>5. ASSUME NEW j \in DOMAIN R, R[j].kind = "unique"
      PROVE  \E n \in DOMAIN V : Chained(R, V, n, j)
  <2>1. CASE j = L + 1
    BY <1>4, <2>1
  <2>2. CASE j \in 1 .. L
    <3>1. PICK n \in 1 .. N : Chained(S, U, n, j)
      BY <1>5, <2>2 DEF ChainExact
    <3>2. QED
      BY <1>1, <2>2, <3>1
  <2>3. QED
    BY <2>1, <2>2
<1>6. ASSUME NEW n \in DOMAIN V
      PROVE  \E j \in DOMAIN R : Chained(R, V, n, j)
  <2>1. CASE n = N + 1
    BY <1>4, <2>1
  <2>2. CASE n \in 1 .. N
    <3>1. PICK j \in 1 .. L : Chained(S, U, n, j)
      BY <2>2 DEF ChainExact
    <3>2. QED
      BY <1>1, <2>2, <3>1
  <2>3. QED
    BY <2>1, <2>2
<1>7. ASSUME NEW m \in DOMAIN V, NEW n \in DOMAIN V, NEW i \in DOMAIN R, NEW j \in DOMAIN R,
             Chained(R, V, m, i), Chained(R, V, n, j)
      PROVE  m < n <=> i < j
  <2>1. (m = N + 1 <=> i = L + 1) /\ (n = N + 1 <=> j = L + 1)
    BY <1>2, <1>3, <1>7
  <2>2. CASE m \in 1 .. N /\ n \in 1 .. N
    <3>1. i \in 1 .. L /\ j \in 1 .. L
      BY <2>1, <2>2
    <3>2. Chained(S, U, m, i) /\ Chained(S, U, n, j)
      BY <1>1, <1>7, <2>2, <3>1
    <3>3. QED
      BY <2>2, <3>1, <3>2 DEF ChainExact
  <2>3. QED
    BY <2>1, <2>2
<1>8. QED
  BY <1>5, <1>6, <1>7 DEF ChainExact

\* The top scope is a unique one: its persona is the last one of the chain.
LEMMA ChainPop ==
  ASSUME NEW S, NEW R, NEW U, NEW V, NEW L, NEW N, NEW s, NEW p, ChainExact(R, V),
         UniqueOn(S, R, U, V, L, N, s, p)
  PROVE  ChainExact(S, U) /\ p = s.persona /\ \A n \in 1 .. N : U[n] # p
<1> USE DEF Pushed, UniqueOn
<1>0. ASSUME NEW m \in 1 .. N + 1, NEW n \in 1 .. N + 1, NEW i \in 1 .. L + 1, NEW j \in 1 .. L + 1,
             Chained(R, V, m, i), Chained(R, V, n, j)
      PROVE  m < n <=> i < j
  BY <1>0 DEF ChainExact
<1>a. N + 1 \in 1 .. N + 1 /\ L + 1 \in 1 .. L + 1
  OBVIOUS
<1>1. Chained(R, V, N + 1, L + 1)
  <2>1. PICK n \in 1 .. N + 1 : Chained(R, V, n, L + 1)
    BY <1>a DEF ChainExact
  <2>2. PICK j \in 1 .. L + 1 : Chained(R, V, N + 1, j)
    BY <1>a DEF ChainExact
  <2>3. n < N + 1 <=> L + 1 < j
    BY <1>0, <1>a, <2>1, <2>2
  <2>4. n = N + 1
    BY <2>3
  <2>5. QED
    BY <2>1, <2>4
<1>2. p = s.persona
  BY <1>1 DEF Chained
<1>3. \A n \in 1 .. N : ~ Chained(R, V, n, L + 1)
  <2>1. ASSUME NEW n \in 1 .. N, Chained(R, V, n, L + 1)
        PROVE  FALSE
    <3>1. n < N + 1 <=> L + 1 < L + 1
      BY <1>0, <1>1, <1>a, <2>1
    <3>2. QED
      BY <3>1
  <2>2. QED
    BY <2>1
<1>4. \A j \in 1 .. L : ~ Chained(R, V, N + 1, j)
  <2>1. ASSUME NEW j \in 1 .. L, Chained(R, V, N + 1, j)
        PROVE  FALSE
    <3>1. N + 1 < N + 1 <=> j < L + 1
      BY <1>0, <1>1, <1>a, <2>1
    <3>2. QED
      BY <3>1
  <2>2. QED
    BY <2>1
<1>5. \A n \in 1 .. N, j \in 1 .. L : Chained(R, V, n, j) <=> Chained(S, U, n, j)
  BY DEF Chained
<1>6. ASSUME NEW j \in DOMAIN S, S[j].kind = "unique"
      PROVE  \E n \in DOMAIN U : Chained(S, U, n, j)
  <2>1. PICK n \in 1 .. N + 1 : Chained(R, V, n, j)
    BY <1>6 DEF ChainExact
  <2>2. n \in 1 .. N
    BY <1>4, <2>1
  <2>3. QED
    BY <1>5, <2>1, <2>2
<1>7. ASSUME NEW n \in DOMAIN U
      PROVE  \E j \in DOMAIN S : Chained(S, U, n, j)
  <2>1. PICK j \in 1 .. L + 1 : Chained(R, V, n, j)
    BY DEF ChainExact
  <2>2. j \in 1 .. L
    BY <1>3, <2>1
  <2>3. QED
    BY <1>5, <2>1, <2>2
<1>8. ASSUME NEW m \in DOMAIN U, NEW n \in DOMAIN U, NEW i \in DOMAIN S, NEW j \in DOMAIN S,
             Chained(S, U, m, i), Chained(S, U, n, j)
      PROVE  m < n <=> i < j
  BY <1>0, <1>5, <1>8
<1>9. \A n \in 1 .. N : U[n] # p
  BY <1>2, <1>3 DEF Chained
<1>10. QED
  BY <1>2, <1>6, <1>7, <1>8, <1>9 DEF ChainExact
-----------------------------------------------------------------------------
(* Scopes and their owners                                                 *)

\* What the scopes of one thread and the owner fields have to agree on.
HoldsExact(t) ==
  /\ scopes[t] # <<>> /\ top[t] = scopes[t][Len(scopes[t])].persona
  /\ ChainExact(scopes[t], unique[t])
  /\ \A p \in Personas : owner[p] = t <=> \E n \in DOMAIN unique[t] : unique[t][n] = p
  /\ \A k \in DOMAIN scopes[t] : owner[scopes[t][k].persona] = t

\* A step of t that neither takes a persona from another thread nor gives it one.
LEMMA ScopesStep ==
  ASSUME TypeOK, ScopesExact, NEW t \in Threads, HoldsExact(t)',
         \A u \in Threads : u # t => /\ scopes'[u] = scopes[u] /\ top'[u] = top[u]
                                     /\ unique'[u] = unique[u],
         \A u \in Threads, p \in Personas : u # t => (owner'[p] = u <=> owner[p] = u)
  PROVE  ScopesExact'
<1>1. ASSUME NEW u \in Threads, u # t
      PROVE  HoldsExact(u)'
  <2>1. HoldsExact(u)
    BY DEF ScopesExact, HoldsExact
  <2>2. /\ scopes'[u] = scopes[u] /\ top'[u] = top[u] /\ unique'[u] = unique[u]
        /\ \A p \in Personas : owner'[p] = u <=> owner[p] = u
    BY <1>1
  <2>3. \A k \in DOMAIN scopes[u] : scopes[u][k].persona \in Personas
    BY ThreadTypes DEF Scope
  <2>4. QED
    BY <2>1, <2>2, <2>3 DEF HoldsExact
<1>2. QED
  BY <1>1 DEF ScopesExact, HoldsExact

ScopeTypes == /\ scopes \in [Threads -> Seq(Scope)] /\ top \in [Threads -> Personas]
              /\ owner \in [Personas -> Threads \cup {Nobody}] /\ unique \in [Threads -> Seq(Personas)]

\* A redundant scope, or another one for a persona the thread already holds.
LEMMA ScopesPush ==
  ASSUME TypeOK, ScopesExact, NEW t \in Threads, NEW s \in Scope, s.kind # "unique", owner[s.persona] = t,
         scopes' = [scopes EXCEPT ![t] = Append(@, s)], top' = [top EXCEPT ![t] = s.persona],
         UNCHANGED <<owner, unique>>
  PROVE  /\ ScopesExact' /\ ScopeTypes' /\ \A u \in Threads : u # t => scopes'[u] = scopes[u]
         /\ Pushed(scopes[t], scopes'[t], Len(scopes[t]), s)
<1>0. scopes[t] \in Seq(Scope) /\ s.persona \in Personas
  BY DEF TypeOK, Scope
<1>1. scopes'[t] = Append(scopes[t], s) /\ top'[t] = s.persona
  BY DEF TypeOK
<1>2. Pushed(scopes[t], scopes'[t], Len(scopes[t]), s) /\ Append(scopes[t], s) \in Seq(Scope)
  BY <1>0, <1>1, PushSeq
<1>3. \A u \in Threads : u # t => scopes'[u] = scopes[u] /\ top'[u] = top[u]
  BY DEF TypeOK
<1>4. ScopeTypes'
  BY <1>0, <1>2 DEF TypeOK, ScopeTypes
<1>5. PICK S, R, L : S = scopes[t] /\ R = scopes'[t] /\ L = Len(scopes[t]) /\ Pushed(S, R, L, s)
  BY <1>2
<1>6. HoldsExact(t)'
  <2>1. ChainExact(S, unique[t]) /\ \A k \in DOMAIN S : owner[S[k].persona] = t
    BY <1>5 DEF ScopesExact
  <2>2. ChainExact(R, unique[t])
    <3>1. /\ \A j \in DOMAIN S : S[j].kind = "unique" => j \in DOMAIN R /\ R[j] = S[j]
          /\ \A j \in DOMAIN R : R[j].kind = "unique" => j \in DOMAIN S /\ R[j] = S[j]
      BY <1>5 DEF Pushed
    <3>2. QED
      BY <2>1, <3>1, ChainSame
  <2>3. \A k \in DOMAIN R : owner[R[k].persona] = t
    BY <1>5, <2>1 DEF Pushed
  <2>4. R # <<>> /\ top'[t] = R[Len(R)].persona
    BY <1>1, <1>5 DEF Pushed
  <2>5. \A p \in Personas : owner[p] = t <=> \E n \in DOMAIN unique[t] : unique[t][n] = p
    BY DEF ScopesExact
  <2>6. unique'[t] = unique[t] /\ owner' = owner
    OBVIOUS
  <2>7. QED
    BY <1>5, <2>2, <2>3, <2>4, <2>5, <2>6 DEF HoldsExact
<1>7. ScopesExact'
  BY <1>3, <1>6, ScopesStep
<1>8. QED
  BY <1>2, <1>3, <1>4, <1>7

LEMMA ScopesPop ==
  ASSUME TypeOK, ScopesExact, NEW t \in Threads, Len(scopes[t]) >= 2,
         scopes[t][Len(scopes[t])].kind # "unique",
         scopes' = [scopes EXCEPT ![t] = SubSeq(@, 1, Len(@) - 1)],
         top' = [top EXCEPT ![t] = scopes[t][Len(scopes[t]) - 1].persona],
         UNCHANGED <<owner, unique>>
  PROVE  /\ ScopesExact' /\ ScopeTypes' /\ \A u \in Threads : u # t => scopes'[u] = scopes[u]
         /\ Pushed(scopes'[t], scopes[t], Len(scopes[t]) - 1, scopes[t][Len(scopes[t])])
<1>0. scopes[t] \in Seq(Scope) /\ Len(scopes[t]) \in Nat /\ Len(scopes[t]) >= 1
  BY LenProperties DEF TypeOK
<1>1. /\ scopes'[t] = SubSeq(scopes[t], 1, Len(scopes[t]) - 1)
      /\ top'[t] = scopes[t][Len(scopes[t]) - 1].persona
  BY DEF TypeOK
<1>2. /\ Pushed(scopes'[t], scopes[t], Len(scopes[t]) - 1, scopes[t][Len(scopes[t])])
      /\ SubSeq(scopes[t], 1, Len(scopes[t]) - 1) \in Seq(Scope)
  BY <1>0, <1>1, PopSeq
<1>3. \A u \in Threads : u # t => scopes'[u] = scopes[u] /\ top'[u] = top[u]
  BY DEF TypeOK
<1>4. ScopeTypes'
  <2>1. Len(scopes[t]) - 1 \in DOMAIN scopes[t]
    BY <1>0, <1>2 DEF Pushed
  <2>2. scopes[t][Len(scopes[t]) - 1] \in Scope
    BY <2>1, ThreadTypes
  <2>3. scopes[t][Len(scopes[t]) - 1].persona \in Personas
    BY <2>2 DEF Scope
  <2>4. QED
    BY <1>2, <2>3 DEF TypeOK, ScopeTypes
<1>5. PICK S, R, L, s : /\ S = scopes'[t] /\ R = scopes[t] /\ L = Len(scopes[t]) - 1 /\ Pushed(S, R, L, s)
                        /\ s = scopes[t][Len(scopes[t])]
  BY <1>2
<1>6. HoldsExact(t)'
  <2>1. ChainExact(R, unique[t]) /\ \A k \in DOMAIN R : owner[R[k].persona] = t
    BY <1>5 DEF ScopesExact
  <2>2. ChainExact(S, unique[t])
    <3>1. /\ \A j \in DOMAIN R : R[j].kind = "unique" => j \in DOMAIN S /\ S[j] = R[j]
          /\ \A j \in DOMAIN S : S[j].kind = "unique" => j \in DOMAIN R /\ S[j] = R[j]
      BY <1>5 DEF Pushed
    <3>2. QED
      BY <2>1, <3>1, ChainSame
  <2>3. \A k \in DOMAIN S : owner[S[k].persona] = t
    BY <1>5, <2>1 DEF Pushed
  <2>4. S # <<>> /\ top'[t] = S[Len(S)].persona
    <3>1. L >= 1 /\ L \in 1 .. L
      BY <1>0, <1>5 DEF Pushed
    <3>2. Len(S) = L /\ S[L] = R[L] /\ L \in DOMAIN S
      BY <1>5, <3>1 DEF Pushed
    <3>3. top'[t] = R[L].persona
      BY <1>1, <1>5
    <3>4. QED
      BY <3>2, <3>3
  <2>5. \A p \in Personas : owner[p] = t <=> \E n \in DOMAIN unique[t] : unique[t][n] = p
    BY DEF ScopesExact
  <2>6. unique'[t] = unique[t] /\ owner' = owner
    OBVIOUS
  <2>7. QED
    BY <1>5, <2>2, <2>3, <2>4, <2>5, <2>6 DEF HoldsExact
<1>7. ScopesExact'
  BY <1>3, <1>6, ScopesStep
<1>8. QED
  BY <1>2, <1>3, <1>4, <1>7

LEMMA ScopesMove ==
  ASSUME TypeOK, ScopesExact, NEW t \in Threads, NEW p \in Personas, owner[p] = t,
         scopes[t][Len(scopes[t])].kind # "unique",
         scopes' = [scopes EXCEPT ![t][Len(scopes[t])].persona = p],
         top' = [top EXCEPT ![t] = p], UNCHANGED <<owner, unique>>
  PROVE  /\ ScopesExact' /\ ScopeTypes' /\ \A u \in Threads : u # t => scopes'[u] = scopes[u]
         /\ scopes'[t] = [scopes[t] EXCEPT ![Len(scopes[t])].persona = p]
<1>0. PICK S \in Seq(Scope) : S = scopes[t]
  BY DEF TypeOK
<1>1. PICK L \in Nat : L = Len(S) /\ L >= 1 /\ DOMAIN S = 1 .. L
  <2>1. S # <<>>
    BY <1>0 DEF ScopesExact
  <2>2. Len(S) \in Nat /\ DOMAIN S = 1 .. Len(S) /\ Len(S) # 0
    BY <2>1, LenProperties, EmptySeq
  <2>3. QED
    BY <2>2
<1>2. L \in 1 .. L /\ S[L] \in Scope
  BY <1>1, LenProperties
<1>3. PICK e : e = [S[L] EXCEPT !.persona = p]
  OBVIOUS
<1>4. e \in Scope /\ e.persona = p /\ e.kind = S[L].kind
  BY <1>2, <1>3 DEF Scope
<1>5. PICK R : R = [S EXCEPT ![L] = e]
  OBVIOUS
<1>6. R \in Seq(Scope) /\ Len(R) = L /\ \A j \in 1 .. L : R[j] = IF j = L THEN e ELSE S[j]
  BY <1>1, <1>2, <1>4, <1>5, ExceptSeq
<1>7. scopes' = [scopes EXCEPT ![t] = R]
  BY <1>0, <1>1, <1>3, <1>5
<1>8. scopes'[t] = R /\ top'[t] = p /\ \A u \in Threads : u # t => scopes'[u] = scopes[u] /\ top'[u] = top[u]
  BY <1>7 DEF TypeOK
<1>9. ScopeTypes'
  <2>1. [scopes EXCEPT ![t] = R] \in [Threads -> Seq(Scope)]
    BY <1>6 DEF TypeOK
  <2>2. scopes' \in [Threads -> Seq(Scope)]
    BY <1>7, <2>1, Zenon
  <2>3. QED
    BY <2>2 DEF TypeOK, ScopeTypes
<1>10. DOMAIN R = 1 .. L
  BY <1>1, <1>5
<1>11. HoldsExact(t)'
  <2>1. ChainExact(S, unique[t]) /\ \A k \in DOMAIN S : owner[S[k].persona] = t
    BY <1>0 DEF ScopesExact
  <2>2. ChainExact(R, unique[t])
    <3>1. S[L].kind # "unique"
      BY <1>0, <1>1
    <3>2. /\ \A j \in DOMAIN S : S[j].kind = "unique" => j \in DOMAIN R /\ R[j] = S[j]
          /\ \A j \in DOMAIN R : R[j].kind = "unique" => j \in DOMAIN S /\ R[j] = S[j]
      BY <1>1, <1>4, <1>6, <1>10, <3>1
    <3>3. QED
      BY <2>1, <3>2, ChainSame
  <2>3. \A k \in DOMAIN R : owner[R[k].persona] = t
    BY <1>1, <1>4, <1>6, <1>10, <2>1
  <2>4. R # <<>> /\ top'[t] = R[Len(R)].persona
    BY <1>2, <1>4, <1>6, <1>8, <1>10
  <2>5. \A q \in Personas : owner[q] = t <=> \E n \in DOMAIN unique[t] : unique[t][n] = q
    BY DEF ScopesExact
  <2>6. unique'[t] = unique[t] /\ owner' = owner
    OBVIOUS
  <2>7. QED
    BY <1>8, <2>2, <2>3, <2>4, <2>5, <2>6, ZenonT(60) DEF HoldsExact
<1>12. ScopesExact'
  BY <1>8, <1>11, ScopesStep
<1>13. QED
  BY <1>0, <1>1, <1>3, <1>5, <1>8, <1>9, <1>12

\* A persona that nobody holds is in no scope and in no chain.
LEMMA FreePersona ==
  ASSUME TypeOK, ScopesExact, NEW p \in Personas, owner[p] = Nobody, NEW t \in Threads
  PROVE  /\ \A k \in DOMAIN scopes[t] : scopes[t][k].persona # p
         /\ \A n \in DOMAIN unique[t] : unique[t][n] # p
<1>1. t # Nobody
  BY ProgressAssumption
<1>2. QED
  BY <1>1 DEF ScopesExact

LEMMA ScopesPushUnique ==
  ASSUME TypeOK, ScopesExact, NEW t \in Threads, NEW p \in Personas, owner[p] = Nobody,
         NEW s \in Scope, s.kind = "unique", s.persona = p,
         scopes' = [scopes EXCEPT ![t] = Append(@, s)], top' = [top EXCEPT ![t] = p],
         owner' = [owner EXCEPT ![p] = t], unique' = [unique EXCEPT ![t] = Append(@, p)]
  PROVE  /\ ScopesExact' /\ ScopeTypes'
         /\ \A u \in Threads : u # t => scopes'[u] = scopes[u] /\ unique'[u] = unique[u]
         /\ Pushed(scopes[t], scopes'[t], Len(scopes[t]), s)
         /\ Pushed(unique[t], unique'[t], Len(unique[t]), p)
         /\ \A k \in DOMAIN scopes[t] : scopes[t][k].persona # p
<1>0. scopes[t] \in Seq(Scope) /\ unique[t] \in Seq(Personas)
  BY DEF TypeOK
<1>1. scopes'[t] = Append(scopes[t], s) /\ top'[t] = p /\ unique'[t] = Append(unique[t], p)
  BY DEF TypeOK
<1>2. Pushed(scopes[t], scopes'[t], Len(scopes[t]), s) /\ Append(scopes[t], s) \in Seq(Scope)
  BY <1>0, <1>1, PushSeq
<1>3. Pushed(unique[t], unique'[t], Len(unique[t]), p) /\ Append(unique[t], p) \in Seq(Personas)
  BY <1>0, <1>1, PushSeq
<1>4. \A u \in Threads : u # t => scopes'[u] = scopes[u] /\ top'[u] = top[u] /\ unique'[u] = unique[u]
  BY DEF TypeOK
<1>5. ScopeTypes'
  BY <1>2, <1>3 DEF TypeOK, ScopeTypes
<1>6. \A q \in Personas : owner'[q] = IF q = p THEN t ELSE owner[q]
  BY DEF TypeOK
<1>7. t # Nobody /\ \A u \in Threads : u # Nobody
  BY ProgressAssumption
<1>8. PICK S, R, L : S = scopes[t] /\ R = scopes'[t] /\ L = Len(scopes[t]) /\ Pushed(S, R, L, s)
  BY <1>2
<1>9. PICK U, V, N : U = unique[t] /\ V = unique'[t] /\ N = Len(unique[t]) /\ Pushed(U, V, N, p)
  BY <1>3
<1>10. /\ \A k \in DOMAIN S : S[k].persona # p /\ S[k].persona \in Personas
       /\ \A n \in DOMAIN U : U[n] # p /\ U[n] \in Personas
  <2>1. \A k \in DOMAIN S : S[k].persona \in Personas
    BY <1>8, ThreadTypes DEF Scope
  <2>2. \A n \in DOMAIN U : U[n] \in Personas
    BY <1>9, ThreadTypes
  <2>3. QED
    BY <1>8, <1>9, <2>1, <2>2, FreePersona
<1>11. HoldsExact(t)'
  <2>1. /\ ChainExact(S, U) /\ \A k \in DOMAIN S : owner[S[k].persona] = t
        /\ \A q \in Personas : owner[q] = t <=> \E n \in DOMAIN U : U[n] = q
    BY <1>8, <1>9 DEF ScopesExact
  <2>2. ChainExact(R, V)
    <3>1. UniqueOn(S, R, U, V, L, N, s, p)
      BY <1>8, <1>9 DEF UniqueOn
    <3>2. (\A n \in DOMAIN U : U[n] # p) /\ (\A j \in DOMAIN S : S[j].persona # p)
      BY <1>10
    <3>3. QED
      BY <2>1, <3>1, <3>2, ChainPush
  <2>3. \A k \in DOMAIN R : owner'[R[k].persona] = t
    BY <1>6, <1>8, <1>10, <2>1 DEF Pushed
  <2>4. R # <<>> /\ top'[t] = R[Len(R)].persona
    BY <1>1, <1>8 DEF Pushed
  <2>5. ASSUME NEW q \in Personas
        PROVE  owner'[q] = t <=> \E n \in DOMAIN V : V[n] = q
    <3>1. (\E n \in DOMAIN V : V[n] = q) <=> q = p \/ \E n \in DOMAIN U : U[n] = q
      BY <1>9 DEF Pushed
    <3>2. QED
      BY <1>6, <2>1, <3>1
  <2>6. QED
    BY <1>8, <1>9, <2>2, <2>3, <2>4, <2>5 DEF HoldsExact
<1>12. \A u \in Threads, q \in Personas : u # t => (owner'[q] = u <=> owner[q] = u)
  BY <1>6, <1>7
<1>13. ScopesExact'
  BY <1>4, <1>11, <1>12, ScopesStep
<1>14. QED
  BY <1>2, <1>3, <1>4, <1>5, <1>8, <1>10, <1>13

LEMMA ScopesPopUnique ==
  ASSUME TypeOK, ScopesExact, NEW t \in Threads, Len(scopes[t]) >= 2,
         NEW s, s = scopes[t][Len(scopes[t])], s.kind = "unique",
         \A k \in DOMAIN scopes[t] : k < Len(scopes[t]) => scopes[t][k].persona # s.persona,
         scopes' = [scopes EXCEPT ![t] = SubSeq(@, 1, Len(@) - 1)],
         top' = [top EXCEPT ![t] = scopes[t][Len(scopes[t]) - 1].persona],
         owner' = [owner EXCEPT ![s.persona] = Nobody],
         unique' = [unique EXCEPT ![t] = SubSeq(@, 1, Len(@) - 1)]
  PROVE  /\ ScopesExact' /\ ScopeTypes'
         /\ \A u \in Threads : u # t => scopes'[u] = scopes[u] /\ unique'[u] = unique[u]
         /\ Pushed(scopes'[t], scopes[t], Len(scopes[t]) - 1, s)
         /\ Pushed(unique'[t], unique[t], Len(unique[t]) - 1, s.persona)
<1>0. /\ scopes[t] \in Seq(Scope) /\ Len(scopes[t]) \in Nat /\ Len(scopes[t]) >= 1
      /\ Len(scopes[t]) \in DOMAIN scopes[t] /\ s \in Scope /\ s.persona \in Personas
  <2>1. /\ scopes[t] \in Seq(Scope) /\ Len(scopes[t]) \in Nat
        /\ DOMAIN scopes[t] = 1 .. Len(scopes[t]) /\ \A k \in DOMAIN scopes[t] : scopes[t][k] \in Scope
    BY ThreadTypes
  <2>2. Len(scopes[t]) \in DOMAIN scopes[t]
    BY <2>1
  <2>3. QED
    BY <2>1, <2>2 DEF Scope
<1>1. /\ unique[t] \in Seq(Personas) /\ Len(unique[t]) \in Nat /\ Len(unique[t]) >= 1
  <2>1. /\ unique[t] \in Seq(Personas) /\ Len(unique[t]) \in Nat /\ DOMAIN unique[t] = 1 .. Len(unique[t])
    BY ThreadTypes
  <2>2. ChainExact(scopes[t], unique[t])
    BY DEF ScopesExact
  <2>3. PICK n \in DOMAIN unique[t] : TRUE
    BY <1>0, <2>2 DEF ChainExact
  <2>4. QED
    BY <2>1, <2>3
<1>2. /\ scopes'[t] = SubSeq(scopes[t], 1, Len(scopes[t]) - 1)
      /\ top'[t] = scopes[t][Len(scopes[t]) - 1].persona
      /\ unique'[t] = SubSeq(unique[t], 1, Len(unique[t]) - 1)
  BY DEF TypeOK
<1>3. /\ Pushed(scopes'[t], scopes[t], Len(scopes[t]) - 1, s)
      /\ SubSeq(scopes[t], 1, Len(scopes[t]) - 1) \in Seq(Scope)
  BY <1>0, <1>2, PopSeq
<1>4. /\ Pushed(unique'[t], unique[t], Len(unique[t]) - 1, unique[t][Len(unique[t])])
      /\ SubSeq(unique[t], 1, Len(unique[t]) - 1) \in Seq(Personas)
  BY <1>1, <1>2, PopSeq
<1>5. \A u \in Threads : u # t => scopes'[u] = scopes[u] /\ top'[u] = top[u] /\ unique'[u] = unique[u]
  BY DEF TypeOK
<1>6. ScopeTypes'
  <2>1. Len(scopes[t]) - 1 \in DOMAIN scopes[t]
    BY <1>0, <1>3 DEF Pushed
  <2>2. scopes[t][Len(scopes[t]) - 1] \in Scope
    BY <2>1, ThreadTypes
  <2>3. scopes[t][Len(scopes[t]) - 1].persona \in Personas
    BY <2>2 DEF Scope
  <2>4. QED
    BY <1>3, <1>4, <2>3 DEF TypeOK, ScopeTypes
<1>7. \A q \in Personas : owner'[q] = IF q = s.persona THEN Nobody ELSE owner[q]
  BY DEF TypeOK
<1>8. owner[s.persona] = t
  BY <1>0 DEF ScopesExact
<1>9. \A u \in Threads : u # Nobody
  BY ProgressAssumption
<1>10. PICK S, R, L : S = scopes'[t] /\ R = scopes[t] /\ L = Len(scopes[t]) - 1 /\ Pushed(S, R, L, s)
  BY <1>3
<1>11. PICK U, V, N, p : /\ U = unique'[t] /\ V = unique[t] /\ N = Len(unique[t]) - 1
                         /\ p = unique[t][Len(unique[t])] /\ Pushed(U, V, N, p)
  BY <1>4
<1>12. /\ ChainExact(R, V) /\ \A k \in DOMAIN R : owner[R[k].persona] = t
       /\ \A q \in Personas : owner[q] = t <=> \E n \in DOMAIN V : V[n] = q
  BY <1>10, <1>11 DEF ScopesExact
<1>13. ChainExact(S, U) /\ p = s.persona /\ \A n \in 1 .. N : U[n] # p
  <2>1. UniqueOn(S, R, U, V, L, N, s, p)
    BY <1>10, <1>11 DEF UniqueOn
  <2>2. QED
    BY <1>12, <2>1, ChainPop
<1>14. HoldsExact(t)'
  <2>1. \A k \in DOMAIN R : R[k].persona \in Personas
    BY <1>10, ThreadTypes DEF Scope
  <2>2. \A k \in DOMAIN S : owner'[S[k].persona] = t
    <3>1. \A k \in DOMAIN S : k \in DOMAIN R /\ k < L + 1 /\ S[k] = R[k]
      BY <1>10 DEF Pushed
    <3>2. \A k \in DOMAIN R : k < L + 1 => R[k].persona # s.persona
      BY <1>0, <1>10
    <3>3. QED
      BY <1>7, <1>12, <2>1, <3>1, <3>2
  <2>3. S # <<>> /\ top'[t] = S[Len(S)].persona
    <3>1. L >= 1 /\ L \in 1 .. L
      BY <1>0, <1>10 DEF Pushed
    <3>2. Len(S) = L /\ S[L] = R[L] /\ L \in DOMAIN S
      BY <1>10, <3>1 DEF Pushed
    <3>3. top'[t] = R[L].persona
      BY <1>2, <1>10
    <3>4. QED
      BY <3>2, <3>3
  <2>4. ASSUME NEW q \in Personas
        PROVE  owner'[q] = t <=> \E n \in DOMAIN U : U[n] = q
    <3>a. /\ \A n \in DOMAIN U : n \in DOMAIN V /\ V[n] = U[n]
          /\ \A n \in DOMAIN V : (n \in DOMAIN U /\ V[n] = U[n]) \/ V[n] = p
          /\ \E n \in DOMAIN V : V[n] = p
      BY <1>11 DEF Pushed
    <3>1. (\E n \in DOMAIN V : V[n] = q) <=> q = p \/ \E n \in DOMAIN U : U[n] = q
      BY <3>a
    <3>2. \A n \in DOMAIN U : U[n] # p
      BY <1>11, <1>13 DEF Pushed
    <3>3. QED
      BY <1>7, <1>9, <1>12, <1>13, <3>1, <3>2
  <2>5. QED
    BY <1>10, <1>11, <1>13, <2>2, <2>3, <2>4 DEF HoldsExact
<1>15. \A u \in Threads, q \in Personas : u # t => (owner'[q] = u <=> owner[q] = u)
  BY <1>7, <1>8, <1>9
<1>16. ScopesExact'
  BY <1>5, <1>14, <1>15, ScopesStep
<1>17. QED
  BY <1>3, <1>4, <1>5, <1>6, <1>11, <1>13, <1>16

-----------------------------------------------------------------------------
(* The levels of a thread                                                  *)

\* c, d are progress calls, F, G callbacks.
FramesOK(F, c) == /\ Len(F) \in Nat /\ DOMAIN F = 1 .. Len(F) /\ c.depth \in Nat
                  /\ \A k \in DOMAIN F : F[k].own \in BOOLEAN /\ F[k].level \in Levels

\* Nothing that the levels depend on changes.
LEMMA LevelsSame ==
  ASSUME NEW g, NEW b, NEW c, NEW F, LevelsOK(g, b, c, F), NEW d,
         d.phase = c.phase, d.depth = c.depth, d.batch = c.batch
  PROVE  LevelsOK(g, b, d, F)
BY DEF LevelsOK

\* At a step between callbacks, or at top level, no user-level callback is running.
LEMMA NoUserFrames ==
  ASSUME NEW g, NEW b, NEW c, NEW F, LevelsOK(g, b, c, F), FramesOK(F, c),
         Len(F) = c.depth \/ g = "none"
  PROVE  /\ UserFrames(F) = {} /\ \A k \in DOMAIN F : F[k].own
         /\ b <=> g = "user" /\ c.phase \notin UserPhases
BY DEF LevelsOK, FramesOK, UserFrames

\* during runs an lpc at once.
LEMMA LevelsDuring ==
  ASSUME NEW g, NEW b \in BOOLEAN, NEW c, NEW F, LevelsOK(g, b, c, F), FramesOK(F, c), c.phase # "leave",
         NEW G, NEW N, NEW f, Pushed(F, G, N, f), f.own, f.level \in Levels, f.level = "user" => b,
         NEW e, e <=> IF f.level = "user" THEN ~ b ELSE b
  PROVE  LevelsOK(g, e, c, G)
<1>1. CASE f.level = "user"
  <2>1. UserFrames(F) = {} /\ g = "user" /\ c.phase \notin UserPhases /\ ~ e
    BY <1>1 DEF LevelsOK
  <2>2. UserFrames(G) = {N + 1}
    BY <1>1, <2>1 DEF UserFrames, Pushed
  <2>3. QED
    BY <1>1, <2>1, <2>2 DEF LevelsOK, Pushed, FramesOK
<1>2. CASE f.level # "user"
  <2>1. UserFrames(G) = UserFrames(F) /\ \A k \in UserFrames(F) : G[k] = F[k]
    BY <1>2 DEF UserFrames, Pushed
  <2>2. e <=> b
    BY <1>2
  <2>3. QED
    BY <1>2, <2>1, <2>2 DEF LevelsOK, Pushed, FramesOK
<1>3. QED
  BY <1>1, <1>2

\* A callback returns.
LEMMA LevelsReturn ==
  ASSUME NEW g, NEW b \in BOOLEAN, NEW c, NEW F, LevelsOK(g, b, c, F), FramesOK(F, c),
         NEW G, NEW N, NEW f, Pushed(G, F, N, f), N >= c.depth,
         NEW e, e <=> IF f.own /\ f.level = "user" THEN ~ b ELSE b
  PROVE  LevelsOK(g, e, c, G)
<1>1. CASE f.level = "user"
  <2>1. N + 1 \in UserFrames(F) /\ F[N + 1] = f
    BY <1>1 DEF UserFrames, Pushed
  <2>2. UserFrames(G) = {}
    <3>1. \A k \in UserFrames(G) : k \in UserFrames(F) /\ k # N + 1
      BY DEF UserFrames, Pushed
    <3>2. QED
      BY <2>1, <3>1 DEF LevelsOK
  <2>3. ~ b /\ g = "user" /\ (f.own <=> c.phase \notin UserPhases)
    BY <2>1 DEF LevelsOK
  <2>4. e <=> g = "user" /\ c.phase \notin UserPhases /\ UserFrames(G) = {}
    BY <1>1, <2>2, <2>3
  <2>5. QED
    BY <2>2, <2>4 DEF LevelsOK, Pushed, FramesOK
<1>2. CASE f.level # "user"
  <2>1. UserFrames(G) = UserFrames(F) /\ \A k \in UserFrames(F) : G[k] = F[k]
    BY <1>2 DEF UserFrames, Pushed
  <2>2. e <=> b
    BY <1>2
  <2>3. QED
    BY <1>2, <2>1, <2>2 DEF LevelsOK, Pushed, FramesOK
<1>3. QED
  BY <1>1, <1>2

\* A progress call starts.
LEMMA LevelsBegin ==
  ASSUME NEW b \in BOOLEAN, NEW c, NEW F, LevelsOK("none", b, c, F), FramesOK(F, c),
         NEW l \in Levels, NEW e, e <=> IF l = "user" THEN ~ b ELSE b,
         NEW d, d.phase \in {"poll", "handles"}, d.depth = Len(F), d.batch = <<>>
  PROVE  LevelsOK(l, e, d, F)
<1>1. UserFrames(F) = {} /\ \A k \in DOMAIN F : F[k].own
  <2>1. Len(F) = c.depth \/ "none" = "none"
    OBVIOUS
  <2>2. QED
    BY <2>1, NoUserFrames
<1>2. ~ b
  BY DEF LevelsOK
<1>3. QED
  BY <1>1, <1>2 DEF LevelsOK, FramesOK, Levels, UserPhases

\* It goes on to another phase.
LEMMA LevelsPhase ==
  ASSUME NEW g, NEW b \in BOOLEAN, NEW c, NEW F, LevelsOK(g, b, c, F), FramesOK(F, c),
         Len(F) = c.depth, c.phase # "idle", NEW d, d.phase # "idle", d.depth = c.depth,
         d.phase \in UserPhases => g = "user",
         d.phase \in {"poll", "handles", "leave"} => d.batch = <<>>,
         NEW e, e <=> IF (c.phase \in UserPhases) # (d.phase \in UserPhases) THEN ~ b ELSE b
  PROVE  LevelsOK(g, e, d, F)
<1>1. /\ UserFrames(F) = {} /\ \A k \in DOMAIN F : F[k].own
      /\ b <=> g = "user" /\ c.phase \notin UserPhases
  BY NoUserFrames
<1>2. /\ g = "none" <=> d.phase = "idle"
      /\ c.phase \in UserPhases => g = "user"
  BY DEF LevelsOK
<1>3. e <=> g = "user" /\ d.phase \notin UserPhases
  <2>1. ((c.phase \in UserPhases) # (d.phase \in UserPhases)) <=> ~ (c.phase \in UserPhases <=> d.phase \in UserPhases)
    OBVIOUS
  <2>2. QED
    BY <1>1, <1>2, <2>1
<1>4. QED
  BY <1>1, <1>2, <1>3 DEF LevelsOK, FramesOK

\* A burst starts its next lpc.
LEMMA LevelsRun ==
  ASSUME NEW g, NEW b \in BOOLEAN, NEW c, NEW F, LevelsOK(g, b, c, F), FramesOK(F, c),
         Len(F) = c.depth, c.batch # <<>>, NEW G, NEW N, NEW f, Pushed(F, G, N, f), ~ f.own,
         f.level = "user" <=> c.phase \in UserPhases,
         NEW d, d.phase = c.phase, d.depth = c.depth
  PROVE  LevelsOK(g, b, d, G)
<1>1. UserFrames(F) = {} /\ \A k \in DOMAIN F : F[k].own
  BY NoUserFrames
<1>2. c.phase \notin {"idle", "poll", "handles", "leave"}
  BY DEF LevelsOK
<1>a. N \in Nat /\ Len(F) = N /\ Len(G) = N + 1 /\ DOMAIN F = 1 .. N /\ DOMAIN G = 1 .. N + 1 /\ G[N + 1] = f
  BY DEF Pushed
<1>b. N = d.depth
  BY <1>a
<1>c. \A k \in DOMAIN G : G[k].own \/ k = d.depth + 1
  <2>1. \A k \in 1 .. N : G[k].own
    BY <1>1, <1>a DEF Pushed
  <2>2. QED
    BY <1>a, <1>b, <2>1
<1>3. CASE f.level = "user"
  <2>1. UserFrames(G) = {N + 1}
    BY <1>1, <1>3 DEF UserFrames, Pushed
  <2>2. ~ b /\ g = "user"
    BY <1>3 DEF LevelsOK
  <2>3. \A k \in UserFrames(G) : k > d.depth /\ (G[k].own <=> d.phase \notin UserPhases)
    BY <1>3, <1>a, <1>b, <2>1
  <2>4. d.depth <= Len(G)
    BY <1>a, <1>b
  <2>5. QED
    BY <1>2, <1>3, <1>c, <2>1, <2>2, <2>3, <2>4 DEF LevelsOK
<1>4. CASE f.level # "user"
  <2>1. UserFrames(G) = {}
    BY <1>1, <1>4 DEF UserFrames, Pushed
  <2>2. d.depth <= Len(G)
    BY <1>a, <1>b
  <2>3. b <=> g = "user" /\ d.phase \notin UserPhases /\ UserFrames(G) = {}
    BY <1>1, <2>1 DEF LevelsOK
  <2>4. /\ g = "none" <=> d.phase = "idle"
        /\ d.phase \in UserPhases => g = "user"
    BY DEF LevelsOK
  <2>5. QED
    BY <1>2, <1>c, <2>1, <2>2, <2>3, <2>4 DEF LevelsOK
<1>5. QED
  BY <1>3, <1>4

\* The progress call returns.
LEMMA LevelsEnd ==
  ASSUME NEW g, NEW b \in BOOLEAN, NEW c, NEW F, LevelsOK(g, b, c, F), FramesOK(F, c), c.phase = "leave",
         NEW e, e <=> IF g = "user" THEN ~ b ELSE b
  PROVE  LevelsOK("none", e, Idle, F)
<1>1. Len(F) = c.depth
  BY DEF LevelsOK
<1>2. /\ UserFrames(F) = {} /\ \A k \in DOMAIN F : F[k].own
      /\ b <=> g = "user"
  BY <1>1, NoUserFrames DEF UserPhases
<1>3. Idle.phase = "idle" /\ Idle.depth = 0 /\ Idle.batch = <<>>
  BY DEF Idle
<1>4. QED
  BY <1>2, <1>3 DEF LevelsOK, FramesOK, UserPhases

-----------------------------------------------------------------------------
(* The stacks of a thread                                                  *)

StackTypes(S, c, F) ==
  /\ Len(S) \in Nat /\ DOMAIN S = 1 .. Len(S) /\ Len(F) \in Nat /\ DOMAIN F = 1 .. Len(F)
  /\ c.depth \in Nat /\ c.depth <= Len(F)
  /\ \A k \in DOMAIN F : F[k].base \in Nat /\ F[k].own \in BOOLEAN

LEMMA ScopesNestPush ==
  ASSUME NEW S, NEW R, NEW L, NEW s, ScopesNest(S), Pushed(S, R, L, s), s.saved = S[L].persona,
         s.kind = "unique" => \A j \in DOMAIN S : S[j].persona # s.persona
  PROVE  ScopesNest(R)
<1> USE DEF Pushed
<1>1. L >= 1 /\ 1 \in 1 .. L /\ R[1].kind = "unique" /\ Len(R) >= 1
  BY DEF ScopesNest
<1>2. ASSUME NEW k \in DOMAIN R, k > 1
      PROVE  R[k].saved = R[k - 1].persona
  <2>1. CASE k = L + 1
    <3>1. k - 1 = L /\ R[L] = S[L]
      BY <1>1, <2>1
    <3>2. QED
      BY <2>1, <3>1
  <2>2. CASE k \in 1 .. L
    <3>1. k - 1 \in 1 .. L
      BY <1>2, <2>2
    <3>2. QED
      BY <1>2, <2>2, <3>1 DEF ScopesNest
  <2>3. QED
    BY <2>1, <2>2
<1>3. ASSUME NEW j \in DOMAIN R, NEW k \in DOMAIN R, j < k, R[k].kind = "unique"
      PROVE  R[j].persona # R[k].persona
  <2>1. j \in 1 .. L /\ R[j] = S[j]
    BY <1>3
  <2>2. CASE k = L + 1
    BY <1>3, <2>1, <2>2
  <2>3. CASE k \in 1 .. L
    BY <1>3, <2>1, <2>3 DEF ScopesNest
  <2>4. QED
    BY <2>2, <2>3
<1>4. QED
  BY <1>1, <1>2, <1>3 DEF ScopesNest

LEMMA ScopesNestPop ==
  ASSUME NEW S, NEW R, NEW L, NEW s, ScopesNest(R), Pushed(S, R, L, s), L >= 1
  PROVE  ScopesNest(S)
<1> USE DEF Pushed
<1>1. 1 \in 1 .. L /\ S[1] = R[1] /\ S[1].kind = "unique" /\ Len(S) >= 1
  BY DEF ScopesNest
<1>2. ASSUME NEW k \in DOMAIN S, k > 1
      PROVE  S[k].saved = S[k - 1].persona
  <2>1. k - 1 \in 1 .. L /\ k \in DOMAIN R
    BY <1>2
  <2>2. QED
    BY <1>2, <2>1 DEF ScopesNest
<1>3. \A j, k \in DOMAIN S : j < k /\ S[k].kind = "unique" => S[j].persona # S[k].persona
  BY DEF ScopesNest
<1>4. QED
  BY <1>1, <1>2, <1>3 DEF ScopesNest

\* The callbacks are all below the entries of the scope stack that change.
LEMMA FramesNestKeep ==
  ASSUME NEW S, NEW R, NEW F, NEW n \in Nat, FramesNest(S, F), n <= Len(R), Len(R) \in Nat,
         \A k \in DOMAIN F : F[k].base \in Nat /\ F[k].base <= n,
         \A j \in 1 .. n : R[j] = S[j]
  PROVE  FramesNest(R, F)
<1>1. ASSUME NEW k \in DOMAIN F
      PROVE  R[F[k].base] = S[F[k].base] /\ F[k].base <= Len(R)
  <2>1. F[k].base \in 1 .. n
    BY DEF FramesNest
  <2>2. QED
    BY <2>1
<1>2. QED
  BY <1>1 DEF FramesNest

LEMMA FramesNestPush ==
  ASSUME NEW S, NEW F, NEW G, NEW N, NEW f, FramesNest(S, F), Pushed(F, G, N, f),
         2 <= f.base, f.base <= Len(S), S[f.base].persona = f.persona, S[f.base].kind = "redundant",
         \A k \in DOMAIN F : F[k].base < f.base
  PROVE  FramesNest(S, G)
<1> USE DEF Pushed
<1>1. \A k \in DOMAIN G : (k \in DOMAIN F /\ G[k] = F[k]) \/ (k = N + 1 /\ G[k] = f)
  OBVIOUS
<1>2. \A k \in DOMAIN G : /\ 2 <= G[k].base /\ G[k].base <= Len(S)
                          /\ S[G[k].base].persona = G[k].persona
                          /\ S[G[k].base].kind = "redundant"
  BY <1>1 DEF FramesNest
<1>3. ASSUME NEW j \in DOMAIN G, NEW k \in DOMAIN G, j < k
      PROVE  G[j].base < G[k].base
  <2>1. j \in DOMAIN F /\ G[j] = F[j]
    BY <1>3
  <2>2. CASE k = N + 1
    BY <2>1, <2>2
  <2>3. CASE k \in DOMAIN F
    BY <1>3, <2>1, <2>3 DEF FramesNest
  <2>4. QED
    BY <1>1, <2>2, <2>3
<1>4. QED
  BY <1>2, <1>3 DEF FramesNest

LEMMA FramesNestPop ==
  ASSUME NEW S, NEW F, NEW G, NEW N, NEW f, FramesNest(S, F), Pushed(G, F, N, f)
  PROVE  FramesNest(S, G) /\ \A k \in DOMAIN G : G[k].base < f.base
<1>1. \A k \in DOMAIN G : k \in DOMAIN F /\ G[k] = F[k] /\ k < N + 1
  BY DEF Pushed
<1>2. N + 1 \in DOMAIN F /\ F[N + 1] = f
  BY DEF Pushed
<1>3. QED
  BY <1>1, <1>2 DEF FramesNest

\* The visit's scope is below the scopes of the callbacks it started.
LEMMA VisitRange ==
  ASSUME NEW S, NEW U, NEW c, NEW F, StackTypes(S, c, F), FramesNest(S, F), VisitNests(S, U, c, F)
  PROVE  /\ VisitScope(S, c, F) \in 2 .. Len(S)
         /\ \A k \in DOMAIN F : k > c.depth => VisitScope(S, c, F) <= F[k].base
<1>1. CASE Len(F) > c.depth
  <2>1. PICK d \in DOMAIN F : d = c.depth + 1
    BY <1>1 DEF StackTypes
  <2>2. PICK v : v = VisitScope(S, c, F) /\ v = (IF F[d].own THEN F[d].base - 1 ELSE F[d].base)
    BY <1>1, <2>1 DEF VisitScope
  <2>3. F[d].base \in Nat /\ F[d].base <= Len(S) /\ 2 <= v
    BY <2>2 DEF StackTypes, FramesNest, VisitNests
  <2>4. v \in 2 .. Len(S) /\ v <= F[d].base
    BY <2>2, <2>3 DEF StackTypes
  <2>5. ASSUME NEW k \in DOMAIN F, k > c.depth
        PROVE  v <= F[k].base
    <3>1. k = d \/ d < k
      BY <2>1, <2>5 DEF StackTypes
    <3>2. F[k].base \in Nat /\ (d < k => F[d].base < F[k].base)
      BY DEF StackTypes, FramesNest
    <3>3. QED
      BY <2>3, <2>4, <3>1, <3>2
  <2>6. QED
    BY <2>2, <2>4, <2>5
<1>2. CASE ~ (Len(F) > c.depth)
  <2>1. VisitScope(S, c, F) = Len(S) /\ 2 <= Len(S)
    BY <1>2 DEF VisitScope, VisitNests
  <2>2. \A k \in DOMAIN F : ~ (k > c.depth)
    BY <1>2 DEF StackTypes
  <2>3. QED
    BY <2>1, <2>2 DEF StackTypes
<1>3. QED
  BY <1>1, <1>2

\* The call goes on with its visit, or has none.
LEMMA StackCall ==
  ASSUME NEW S, NEW U, NEW c, NEW F, StackOK(S, U, c, F),
         NEW d, Visiting(d) => Visiting(c) /\ d.at = c.at /\ d.depth = c.depth
  PROVE  StackOK(S, U, d, F)
BY DEF StackOK, VisitNests, VisitScope

\* A callback, or top-level code, opens a scope.
LEMMA StackPush ==
  ASSUME NEW S, NEW U, NEW c, NEW F, StackTypes(S, c, F), StackOK(S, U, c, F),
         Visiting(c) => Len(F) > c.depth,
         NEW R, NEW L, NEW s, Pushed(S, R, L, s), s.saved = S[L].persona,
         s.kind = "unique" => \A j \in DOMAIN S : S[j].persona # s.persona,
         NEW V, \A n \in DOMAIN U : n \in DOMAIN V /\ V[n] = U[n]
  PROVE  StackOK(R, V, c, F)
<1>1. ScopesNest(R)
  BY ScopesNestPush DEF StackOK
<1>2. FramesNest(R, F)
  <2>1. L \in Nat /\ Len(S) = L /\ L <= Len(R) /\ Len(R) \in Nat /\ \A j \in 1 .. L : R[j] = S[j]
    BY DEF Pushed
  <2>2. FramesNest(S, F) /\ \A k \in DOMAIN F : F[k].base \in Nat /\ F[k].base <= L
    BY <2>1 DEF StackOK, StackTypes, FramesNest
  <2>3. QED
    BY <2>1, <2>2, FramesNestKeep
<1>3. ASSUME Visiting(c)
      PROVE  VisitNests(R, V, c, F)
  <2>1. PICK v : v = VisitScope(S, c, F)
    OBVIOUS
  <2>2. v = VisitScope(R, c, F)
    BY <1>3, <2>1 DEF VisitScope
  <2>3. VisitNests(S, U, c, F) /\ v \in 2 .. Len(S)
    BY <1>3, <2>1, VisitRange DEF StackOK
  <2>4. R[v] = S[v] /\ c.at \in DOMAIN V /\ V[c.at] = U[c.at]
    BY <2>3 DEF Pushed, VisitNests
  <2>5. QED
    BY <2>1, <2>2, <2>3, <2>4 DEF VisitNests
<1>4. QED
  BY <1>1, <1>2, <1>3 DEF StackOK

\* It closes one: not one of those it found open.
LEMMA StackPop ==
  ASSUME NEW S, NEW U, NEW c, NEW F, NEW R, NEW V, StackTypes(R, c, F), StackOK(R, V, c, F),
         Visiting(c) => Len(F) > c.depth,
         NEW L, NEW s, Pushed(S, R, L, s), L >= 1, \A k \in DOMAIN F : F[k].base <= L,
         \A n \in DOMAIN V : \/ n \in DOMAIN U /\ U[n] = V[n]
                             \/ s.kind = "unique" /\ V[n] = s.persona
  PROVE  StackOK(S, U, c, F)
<1>1. ScopesNest(S)
  BY ScopesNestPop DEF StackOK
<1>a. L \in Nat /\ Len(S) = L /\ L <= Len(S) /\ Len(S) \in Nat /\ \A j \in 1 .. L : S[j] = R[j]
  BY DEF Pushed
<1>2. FramesNest(S, F)
  <2>1. FramesNest(R, F) /\ \A k \in DOMAIN F : F[k].base \in Nat /\ F[k].base <= L
    BY DEF StackOK, StackTypes
  <2>2. QED
    BY <1>a, <2>1, FramesNestKeep
<1>3. ASSUME Visiting(c)
      PROVE  VisitNests(S, U, c, F)
  <2>1. PICK v : v = VisitScope(R, c, F)
    OBVIOUS
  <2>2. v = VisitScope(S, c, F)
    BY <1>3, <2>1 DEF VisitScope
  <2>3. /\ VisitNests(R, V, c, F) /\ v \in 2 .. Len(R)
        /\ \A k \in DOMAIN F : k > c.depth => v <= F[k].base
    BY <1>3, <2>1, VisitRange DEF StackOK
  <2>4. PICK d \in DOMAIN F : d > c.depth /\ F[d].base \in Nat /\ F[d].base <= L
    <3>1. Len(F) \in DOMAIN F
      BY <1>3 DEF StackTypes
    <3>2. QED
      BY <1>3, <3>1 DEF StackTypes
  <2>5. v \in 1 .. L
    BY <1>a, <2>3, <2>4
  <2>6. R[v].persona # s.persona \/ s.kind # "unique"
    <3>1. v \in DOMAIN R /\ L + 1 \in DOMAIN R /\ v < L + 1 /\ R[L + 1] = s
      BY <2>5 DEF Pushed
    <3>2. QED
      BY <3>1 DEF StackOK, ScopesNest
  <2>7. c.at \in DOMAIN V /\ R[v].persona = V[c.at]
    BY <2>1, <2>3 DEF VisitNests
  <2>8. S[v] = R[v] /\ c.at \in DOMAIN U /\ U[c.at] = V[c.at]
    BY <1>a, <2>5, <2>6, <2>7
  <2>9. QED
    BY <2>1, <2>2, <2>3, <2>8 DEF VisitNests
<1>4. QED
  BY <1>1, <1>2, <1>3 DEF StackOK

\* The callback f with its own scope s on top of the others.
OwnOn(S, R, L, s, F, G, N, f) ==
  Pushed(S, R, L, s) /\ Pushed(F, G, N, f) /\ f.own /\ f.base = L + 1

\* during runs an lpc at once, in a scope of its own.
LEMMA StackDuring ==
  ASSUME NEW S, NEW U, NEW c, NEW F, StackTypes(S, c, F), StackOK(S, U, c, F),
         NEW R, NEW L, NEW s, NEW G, NEW N, NEW f, OwnOn(S, R, L, s, F, G, N, f),
         s.saved = S[L].persona, s.kind = "redundant", f.persona = s.persona
  PROVE  StackOK(R, U, c, G)
<1> USE DEF OwnOn
<1>1. ScopesNest(R)
  BY ScopesNestPush DEF StackOK
<1>a. /\ L \in Nat /\ Len(S) = L /\ L <= Len(R) /\ Len(R) = L + 1 /\ \A j \in 1 .. L : R[j] = S[j]
      /\ R[L + 1] = s /\ L >= 1
  BY DEF Pushed, StackOK, ScopesNest
<1>b. \A k \in DOMAIN F : F[k].base \in Nat /\ F[k].base <= L
  BY <1>a DEF StackOK, StackTypes, FramesNest
<1>2. FramesNest(R, G)
  <2>1. FramesNest(S, F) /\ Len(R) \in Nat
    BY <1>a DEF StackOK
  <2>2. FramesNest(R, F)
    BY <1>a, <1>b, <2>1, FramesNestKeep
  <2>3. /\ 2 <= f.base /\ f.base <= Len(R) /\ R[f.base].persona = f.persona
        /\ R[f.base].kind = "redundant" /\ \A k \in DOMAIN F : F[k].base < f.base
    BY <1>a, <1>b
  <2>4. QED
    BY <2>2, <2>3, FramesNestPush
<1>3. ASSUME Visiting(c)
      PROVE  VisitNests(R, U, c, G)
  <2>1. PICK v : v = VisitScope(S, c, F)
    OBVIOUS
  <2>2. VisitNests(S, U, c, F) /\ v \in 2 .. Len(S)
    BY <1>3, <2>1, VisitRange DEF StackOK
  <2>3. v = VisitScope(R, c, G)
    <3>1. CASE Len(F) > c.depth
      <4>1. Len(G) > c.depth /\ c.depth + 1 \in DOMAIN F /\ G[c.depth + 1] = F[c.depth + 1]
        BY <3>1 DEF Pushed, StackTypes
      <4>2. QED
        BY <2>1, <3>1, <4>1 DEF VisitScope
    <3>2. CASE Len(F) = c.depth
      <4>1. Len(G) > c.depth /\ G[c.depth + 1] = f
        BY <3>2 DEF Pushed
      <4>2. VisitScope(R, c, G) = f.base - 1 /\ v = L
        BY <1>a, <2>1, <3>2, <4>1 DEF VisitScope
      <4>3. QED
        BY <1>a, <4>2
    <3>3. QED
      BY <3>1, <3>2 DEF StackTypes
  <2>4. R[v] = S[v] /\ c.at \in DOMAIN U
    BY <1>a, <2>2 DEF VisitNests
  <2>5. \A k \in DOMAIN G : k <= c.depth => k \in DOMAIN F /\ G[k] = F[k]
    BY DEF Pushed, StackTypes
  <2>6. QED
    BY <2>1, <2>2, <2>3, <2>4, <2>5 DEF VisitNests
<1>4. QED
  BY <1>1, <1>2, <1>3 DEF StackOK

\* It returns, and its scope ends.
LEMMA StackReturnOwn ==
  ASSUME NEW S, NEW U, NEW c, NEW F, NEW R, StackTypes(R, c, F), StackOK(R, U, c, F),
         NEW L, NEW s, NEW G, NEW N, NEW f, OwnOn(S, R, L, s, G, F, N, f), N >= c.depth
  PROVE  StackOK(S, U, c, G)
<1> USE DEF OwnOn
<1>a. /\ L \in Nat /\ Len(S) = L /\ L <= Len(S) /\ Len(S) \in Nat /\ Len(R) = L + 1
      /\ \A j \in 1 .. L : S[j] = R[j]
  BY DEF Pushed
<1>b. N + 1 \in DOMAIN F /\ F[N + 1] = f /\ N \in Nat /\ Len(F) = N + 1 /\ Len(G) = N
  BY DEF Pushed
<1>0. L >= 1
  BY <1>a, <1>b DEF StackOK, FramesNest
<1>1. ScopesNest(S)
  BY <1>0, ScopesNestPop DEF StackOK
<1>2. FramesNest(S, G)
  <2>1. FramesNest(R, G) /\ \A k \in DOMAIN G : G[k].base < f.base
    BY FramesNestPop DEF StackOK
  <2>2. \A k \in DOMAIN G : G[k].base \in Nat
    BY DEF StackTypes, Pushed
  <2>3. \A k \in DOMAIN G : G[k].base \in Nat /\ G[k].base <= L
    BY <1>a, <2>1, <2>2
  <2>4. QED
    BY <1>a, <2>1, <2>3, FramesNestKeep
<1>3. ASSUME Visiting(c)
      PROVE  VisitNests(S, U, c, G)
  <2>1. PICK v : v = VisitScope(R, c, F)
    OBVIOUS
  <2>2. VisitNests(R, U, c, F) /\ v \in 2 .. Len(R)
    BY <1>3, <2>1, VisitRange DEF StackOK
  <2>3. v = VisitScope(S, c, G) /\ v <= L
    <3>1. CASE N > c.depth
      <4>1. PICK d \in DOMAIN G : d = c.depth + 1 /\ d \in DOMAIN F /\ G[d] = F[d] /\ d < N + 1
        BY <1>b, <3>1 DEF Pushed, StackTypes
      <4>2. Len(G) > c.depth /\ Len(F) > c.depth
        BY <1>b, <3>1 DEF StackTypes
      <4>3. v = VisitScope(S, c, G) /\ v = (IF F[d].own THEN F[d].base - 1 ELSE F[d].base)
        BY <2>1, <4>1, <4>2 DEF VisitScope
      <4>4. F[d].base \in Nat /\ F[d].base < L + 1
        BY <1>b, <4>1 DEF StackOK, FramesNest, StackTypes
      <4>5. QED
        BY <1>a, <4>3, <4>4
    <3>2. CASE N = c.depth
      <4>1. VisitScope(S, c, G) = L
        BY <1>a, <1>b, <3>2 DEF VisitScope
      <4>2. v = f.base - 1
        BY <1>b, <2>1, <3>2 DEF VisitScope
      <4>3. QED
        BY <1>a, <4>1, <4>2
    <3>3. QED
      BY <1>b, <3>1, <3>2 DEF StackTypes
  <2>4. S[v] = R[v] /\ c.at \in DOMAIN U
    BY <1>a, <2>2, <2>3 DEF VisitNests
  <2>5. \A k \in DOMAIN G : k \in DOMAIN F /\ G[k] = F[k]
    BY DEF Pushed
  <2>6. QED
    BY <2>1, <2>2, <2>3, <2>4, <2>5 DEF VisitNests
<1>4. QED
  BY <1>1, <1>2, <1>3 DEF StackOK

\* A callback of a burst returns.
LEMMA StackReturn ==
  ASSUME NEW S, NEW U, NEW c, NEW F, StackTypes(S, c, F), StackOK(S, U, c, F),
         NEW G, NEW N, NEW f, Pushed(G, F, N, f), ~ f.own, f.base = Len(S), N = c.depth
  PROVE  StackOK(S, U, c, G)
<1>1. FramesNest(S, G)
  BY FramesNestPop DEF StackOK
<1>2. ASSUME Visiting(c)
      PROVE  VisitNests(S, U, c, G)
  <2>1. PICK v : v = VisitScope(S, c, F)
    OBVIOUS
  <2>2. v = VisitScope(S, c, G)
    <3>1. Len(F) > c.depth /\ F[c.depth + 1] = f /\ ~ (Len(G) > c.depth)
      BY DEF Pushed, StackTypes
    <3>2. QED
      BY <2>1, <3>1 DEF VisitScope
  <2>3. \A k \in DOMAIN G : k \in DOMAIN F /\ G[k] = F[k]
    BY DEF Pushed
  <2>4. VisitNests(S, U, c, F)
    BY <1>2 DEF StackOK
  <2>5. QED
    BY <2>1, <2>2, <2>3, <2>4 DEF VisitNests
<1>3. QED
  BY <1>1, <1>2 DEF StackOK

\* The first visit of a sweep pushes its scope.
LEMMA StackVisit ==
  ASSUME NEW S, NEW U, NEW c, NEW F, StackTypes(S, c, F), StackOK(S, U, c, F),
         NEW R, NEW L, NEW s, Pushed(S, R, L, s), s.saved = S[L].persona, s.kind = "redundant",
         NEW d, d.depth = Len(F), d.at \in DOMAIN U, s.persona = U[d.at]
  PROVE  StackOK(R, U, d, F)
<1>a. /\ L \in Nat /\ Len(S) = L /\ L <= Len(R) /\ Len(R) = L + 1 /\ \A j \in 1 .. L : R[j] = S[j]
      /\ R[L + 1] = s /\ L >= 1
  BY DEF Pushed, StackOK, ScopesNest
<1>b. \A k \in DOMAIN F : F[k].base \in Nat /\ F[k].base <= L
  BY <1>a DEF StackOK, StackTypes, FramesNest
<1>1. ScopesNest(R)
  BY ScopesNestPush DEF StackOK
<1>2. FramesNest(R, F)
  <2>1. FramesNest(S, F) /\ Len(R) \in Nat
    BY <1>a DEF StackOK
  <2>2. QED
    BY <1>a, <1>b, <2>1, FramesNestKeep
<1>3. VisitNests(R, U, d, F)
  <2>1. VisitScope(R, d, F) = L + 1
    BY <1>a DEF VisitScope, StackTypes
  <2>2. \A k \in DOMAIN F : F[k].base < L + 1
    BY <1>a, <1>b
  <2>3. QED
    BY <1>a, <2>1, <2>2 DEF VisitNests
<1>4. QED
  BY <1>1, <1>2, <1>3 DEF StackOK

\* A burst starts its next lpc, in the scope of the visit.
LEMMA StackRun ==
  ASSUME NEW S, NEW U, NEW c, NEW F, StackTypes(S, c, F), StackOK(S, U, c, F), Visiting(c),
         NEW G, NEW N, NEW f, Pushed(F, G, N, f), N = c.depth, ~ f.own, f.base = Len(S),
         f.persona = U[c.at], NEW d, d.at = c.at, d.depth = c.depth
  PROVE  StackOK(S, U, d, G)
<1>1. VisitScope(S, c, F) = Len(S)
  BY DEF VisitScope, Pushed, StackTypes
<1>2. VisitNests(S, U, c, F) /\ FramesNest(S, F)
  BY DEF StackOK
<1>3. /\ 2 <= Len(S) /\ S[Len(S)].kind = "redundant" /\ c.at \in DOMAIN U
      /\ S[Len(S)].persona = U[c.at] /\ \A k \in DOMAIN F : F[k].base < Len(S)
  <2>1. \A k \in DOMAIN F : k <= c.depth
    BY DEF Pushed, StackTypes
  <2>2. QED
    BY <1>1, <1>2, <2>1 DEF VisitNests
<1>4. FramesNest(S, G)
  <2>1. /\ 2 <= f.base /\ f.base <= Len(S) /\ S[f.base].persona = f.persona
        /\ S[f.base].kind = "redundant" /\ \A k \in DOMAIN F : F[k].base < f.base
    BY <1>3 DEF StackTypes
  <2>2. QED
    BY <1>2, <2>1, FramesNestPush
<1>5. VisitNests(S, U, d, G)
  <2>1. Len(G) > d.depth /\ G[d.depth + 1] = f
    BY DEF Pushed
  <2>2. VisitScope(S, d, G) = Len(S)
    BY <2>1 DEF VisitScope
  <2>3. \A k \in DOMAIN G : k <= d.depth => k \in DOMAIN F /\ G[k] = F[k]
    BY DEF Pushed
  <2>4. QED
    BY <1>3, <2>2, <2>3 DEF VisitNests
<1>6. QED
  BY <1>4, <1>5 DEF StackOK

\* R is the scopes S with the persona of the top one replaced by p.
Replaced(S, R, L, p) ==
  /\ L = Len(S) /\ Len(R) = L /\ DOMAIN R = 1 .. L
  /\ \A k \in 1 .. L : k < L => R[k] = S[k]
  /\ R[L].kind = S[L].kind /\ R[L].saved = S[L].saved /\ R[L].persona = p

\* The visit of one persona ends and that of another begins.
LEMMA StackMove ==
  ASSUME NEW S, NEW U, NEW c, NEW F, StackTypes(S, c, F), StackOK(S, U, c, F), Visiting(c),
         Len(F) = c.depth, NEW d, d.depth = c.depth, d.at \in DOMAIN U,
         NEW R, NEW L, Replaced(S, R, L, U[d.at])
  PROVE  StackOK(R, U, d, F)
<1> USE DEF Replaced
<1>1. VisitScope(S, c, F) = L /\ VisitScope(R, d, F) = L
  BY DEF VisitScope, StackTypes
<1>2. /\ 2 <= L /\ S[L].kind = "redundant" /\ L \in Nat /\ \A k \in DOMAIN F : F[k].base < L
      /\ DOMAIN S = 1 .. L
  <2>1. \A k \in DOMAIN F : k <= c.depth
    BY DEF StackTypes
  <2>2. QED
    BY <1>1, <2>1 DEF StackOK, VisitNests, StackTypes
<1>3. ScopesNest(R)
  <2>1. 1 \in 1 .. L /\ 1 < L /\ R[1] = S[1] /\ R[1].kind = "unique"
    BY <1>2 DEF StackOK, ScopesNest
  <2>2. ASSUME NEW k \in DOMAIN R, k > 1
        PROVE  R[k].saved = R[k - 1].persona
    <3>1. k - 1 \in 1 .. L /\ k - 1 < L /\ R[k - 1] = S[k - 1] /\ R[k].saved = S[k].saved
      BY <1>2, <2>2
    <3>2. QED
      BY <1>2, <2>2, <3>1 DEF StackOK, ScopesNest
  <2>3. ASSUME NEW j \in DOMAIN R, NEW k \in DOMAIN R, j < k, R[k].kind = "unique"
        PROVE  R[j].persona # R[k].persona
    <3>1. k # L
      BY <1>2, <2>3
    <3>2. k < L /\ j < L /\ R[j] = S[j] /\ R[k] = S[k]
      BY <1>2, <2>3, <3>1
    <3>3. QED
      BY <1>2, <2>3, <3>2 DEF StackOK, ScopesNest
  <2>4. QED
    BY <1>2, <2>1, <2>2, <2>3 DEF ScopesNest
<1>4. FramesNest(R, F)
  <2>1. ASSUME NEW k \in DOMAIN F
        PROVE  R[F[k].base] = S[F[k].base] /\ F[k].base <= L
    <3>1. F[k].base \in 1 .. L /\ F[k].base < L
      BY <1>2 DEF StackOK, FramesNest, StackTypes
    <3>2. QED
      BY <3>1
  <2>2. FramesNest(S, F)
    BY DEF StackOK
  <2>3. QED
    BY <2>1, <2>2 DEF FramesNest
<1>5. VisitNests(R, U, d, F)
  BY <1>1, <1>2 DEF VisitNests
<1>6. QED
  BY <1>3, <1>4, <1>5 DEF StackOK

\* The progress call ends its last visit.
LEMMA StackEnd ==
  ASSUME NEW S, NEW U, NEW c, NEW F, NEW R, StackTypes(R, c, F), StackOK(R, U, c, F), Visiting(c),
         Len(F) = c.depth, NEW L, NEW s, Pushed(S, R, L, s), NEW d, ~ Visiting(d)
  PROVE  StackOK(S, U, d, F) /\ s.kind # "unique" /\ L >= 1
<1>1. VisitScope(R, c, F) = L + 1
  BY DEF VisitScope, StackTypes, Pushed
<1>2. L >= 1 /\ L \in Nat /\ s.kind = "redundant" /\ \A k \in DOMAIN F : F[k].base \in Nat /\ F[k].base <= L
  <2>1. \A k \in DOMAIN F : k <= c.depth /\ F[k].base \in Nat
    BY DEF StackTypes
  <2>2. 2 <= L + 1 /\ R[L + 1].kind = "redundant" /\ \A k \in DOMAIN F : F[k].base < L + 1
    BY <1>1, <2>1 DEF StackOK, VisitNests
  <2>3. L \in Nat /\ R[L + 1] = s
    BY DEF Pushed
  <2>4. QED
    BY <2>1, <2>2, <2>3
<1>3. ScopesNest(S)
  BY <1>2, ScopesNestPop DEF StackOK
<1>4. FramesNest(S, F)
  <2>1. L <= Len(S) /\ Len(S) \in Nat /\ (\A j \in 1 .. L : S[j] = R[j]) /\ FramesNest(R, F)
    BY DEF Pushed, StackOK
  <2>2. QED
    BY <1>2, <2>1, FramesNestKeep
<1>5. QED
  BY <1>2, <1>3, <1>4 DEF StackOK

-----------------------------------------------------------------------------
(* What waits and what runs                                                *)

\* The callbacks and the items that run stay the same.
LEMMA RunKeeps ==
  ASSUME ItemsRun, frames' = frames, \A i \in Items : state'[i] = "running" <=> state[i] = "running"
  PROVE  ItemsRun'
BY DEF ItemsRun, Runs

LEMMA RunPush ==
  ASSUME ItemsRun, NEW t \in Threads, NEW N, NEW f, Pushed(frames[t], frames'[t], N, f),
         \A u \in Threads : u # t => frames'[u] = frames[u],
         f.item \in Items => state[f.item] # "running",
         \A i \in Items : state'[i] = "running" <=> state[i] = "running" \/ i = f.item
  PROVE  ItemsRun'
<1>1. /\ N + 1 \in DOMAIN frames'[t] /\ frames'[t][N + 1] = f
      /\ \A u \in Threads : \A k \in DOMAIN frames[u] : k \in DOMAIN frames'[u] /\ frames'[u][k] = frames[u][k]
      /\ \A u \in Threads : \A k \in DOMAIN frames'[u] :
           \/ k \in DOMAIN frames[u] /\ frames'[u][k] = frames[u][k]
           \/ u = t /\ k = N + 1 /\ frames'[u][k] = f
  BY DEF Pushed
<1>2. \A i \in Items : Runs(i)' <=> Runs(i) \/ i = f.item
  BY <1>1 DEF Runs
<1>3. f.item \in Items => ~ Runs(f.item)
  BY DEF ItemsRun
<1>4. ASSUME NEW u \in Threads, NEW v \in Threads, NEW j \in DOMAIN frames'[u], NEW k \in DOMAIN frames'[v],
             frames'[u][j].item = frames'[v][k].item, frames'[u][j].item \in Items
      PROVE  u = v /\ j = k
  <2>1. \A w \in Threads : \A n \in DOMAIN frames[w] : frames[w][n].item # f.item \/ f.item \notin Items
    BY <1>3 DEF Runs
  <2>2. QED
    BY <1>1, <1>4, <2>1 DEF ItemsRun
<1>5. QED
  BY <1>2, <1>4 DEF ItemsRun

LEMMA RunPop ==
  ASSUME ItemsRun, NEW t \in Threads, NEW N, NEW f, Pushed(frames'[t], frames[t], N, f),
         \A u \in Threads : u # t => frames'[u] = frames[u],
         \A i \in Items : state'[i] = "running" <=> state[i] = "running" /\ i # f.item
  PROVE  ItemsRun'
<1>1. /\ N + 1 \in DOMAIN frames[t] /\ frames[t][N + 1] = f /\ N + 1 \notin DOMAIN frames'[t]
      /\ \A u \in Threads : \A k \in DOMAIN frames'[u] : k \in DOMAIN frames[u] /\ frames'[u][k] = frames[u][k]
      /\ \A u \in Threads : \A k \in DOMAIN frames[u] :
           \/ k \in DOMAIN frames'[u] /\ frames'[u][k] = frames[u][k]
           \/ u = t /\ k = N + 1 /\ frames[u][k] = f
  BY DEF Pushed
<1>2. ASSUME NEW i \in Items
      PROVE  Runs(i)' <=> Runs(i) /\ i # f.item
  <2>1. Runs(i) /\ i # f.item => Runs(i)'
    BY <1>1 DEF Runs
  <2>2. Runs(i)' => Runs(i)
    BY <1>1 DEF Runs
  <2>3. Runs(i)' => i # f.item
    <3>1. SUFFICES ASSUME Runs(i)', i = f.item
                   PROVE  FALSE
      OBVIOUS
    <3>a. PICK u \in Threads : \E k \in DOMAIN frames'[u] : frames'[u][k].item = i
      BY <3>1 DEF Runs
    <3>2. PICK k \in DOMAIN frames'[u] : frames'[u][k].item = i
      BY <3>a
    <3>3. k \in DOMAIN frames[u] /\ frames[u][k].item = frames[t][N + 1].item
      BY <1>1, <3>1, <3>2
    <3>4. u = t /\ k = N + 1
      BY <1>1, <3>1, <3>3 DEF ItemsRun
    <3>5. QED
      BY <1>1, <3>2, <3>4
  <2>4. QED
    BY <2>1, <2>2, <2>3
<1>3. ASSUME NEW u \in Threads, NEW v \in Threads, NEW j \in DOMAIN frames'[u], NEW k \in DOMAIN frames'[v],
             frames'[u][j].item = frames'[v][k].item, frames'[u][j].item \in Items
      PROVE  u = v /\ j = k
  BY <1>1, <1>3 DEF ItemsRun
<1>4. QED
  BY <1>2, <1>3 DEF ItemsRun

\* What waits in other places than w and b stays as it is.
PlacesKeep(w, b) ==
  /\ \A p \in Personas, l \in Levels : <<"peer", p, l>> \notin {w, b} => peer'[p][l] = peer[p][l]
  /\ \A p \in Personas, l \in Levels : <<"self", p, l>> \notin {w, b} => self'[p][l] = self[p][l]
  /\ \A p \in Personas : <<"pros", p, "user">> \notin {w, b} => pros'[p] = pros[p]
  /\ \A u \in Threads : <<"burst", u, "user">> \notin {w, b} => prog'[u].batch = prog[u].batch

LEMMA OthersWait ==
  ASSUME TypeOK, TypeOK', NEW w, NEW b, PlacesKeep(w, b), NEW v \in Places, v # w, v # b
  PROVE  Waiting'[v] = Waiting[v]
<1>1. WaitingIs /\ WaitingIs'
  BY WaitingTyped, WaitingTypedNext
<1>2. CASE \E p \in Personas, l \in Levels : v = <<"peer", p, l>> \/ v = <<"self", p, l>>
  <2>1. PICK p \in Personas, l \in Levels : v = <<"peer", p, l>> \/ v = <<"self", p, l>>
    BY <1>2
  <2>2. CASE v = <<"peer", p, l>>
    BY <1>1, <2>2, ZenonT(60) DEF WaitingIs, PlacesKeep
  <2>3. CASE v = <<"self", p, l>>
    BY <1>1, <2>3, ZenonT(60) DEF WaitingIs, PlacesKeep
  <2>4. QED
    BY <2>1, <2>2, <2>3
<1>3. CASE \E p \in Personas : v = <<"pros", p, "user">>
  <2>1. PICK p \in Personas : v = <<"pros", p, "user">>
    BY <1>3
  <2>2. pros'[p] = pros[p]
    BY <2>1 DEF PlacesKeep
  <2>3. QED
    BY <1>1, <2>1, <2>2 DEF WaitingIs
<1>4. CASE \E t \in Threads : v = <<"burst", t, "user">>
  <2>1. PICK t \in Threads : v = <<"burst", t, "user">>
    BY <1>4
  <2>2. prog'[t].batch = prog[t].batch
    BY <2>1 DEF PlacesKeep
  <2>3. QED
    BY <1>1, <2>1, <2>2 DEF WaitingIs
<1>5. QED
  BY <1>2, <1>3, <1>4, PlaceFacts

LEMMA OnceWaits == ProgressInv => \A x \in Items \cup Promises : Once(Waiting, x)
BY InvParts DEF ItemsWait, PromisesWait

LEMMA WaitSame ==
  ASSUME TypeOK, TypeOK', UNCHANGED queues, \A u \in Threads : prog'[u].batch = prog[u].batch
  PROVE  Waiting' = Waiting
<1>1. ASSUME NEW v \in Places
      PROVE  Waiting'[v] = Waiting[v]
  <2>1. PICK w : w = <<"none">>
    OBVIOUS
  <2>2. v # w
    BY <2>1, PlaceFacts
  <2>3. PlacesKeep(w, w)
    BY DEF PlacesKeep, queues
  <2>4. QED
    BY <2>2, <2>3, OthersWait
<1>2. Waiting \in [Places -> Seq(Items \cup Promises)] /\ Waiting' \in [Places -> Seq(Items \cup Promises)]
  BY WaitingTyped, WaitingTypedNext DEF WaitingIs
<1>3. PICK Q \in [Places -> Seq(Items \cup Promises)], R \in [Places -> Seq(Items \cup Promises)] :
        Q = Waiting /\ R = Waiting'
  BY <1>2
<1>4. Q = R
  BY <1>1, <1>3
<1>5. QED
  BY <1>3, <1>4

LEMMA WaitAppend ==
  ASSUME ProgressInv, TypeOK', NEW w \in Places, NEW e \in Items \cup Promises, ~ In(Waiting, e),
         Waiting'[w] = Append(Waiting[w], e), PlacesKeep(w, w)
  PROVE  \A x \in Items \cup Promises : (In(Waiting', x) <=> In(Waiting, x) \/ x = e) /\ Once(Waiting', x)
<1>0. TypeOK
  BY DEF ProgressInv
<1>1. Waiting \in [Places -> Seq(Items \cup Promises)] /\ Waiting' \in [Places -> Seq(Items \cup Promises)]
  BY <1>0, WaitingTyped, WaitingTypedNext DEF WaitingIs
<1>2. PICK Q \in [Places -> Seq(Items \cup Promises)], R \in [Places -> Seq(Items \cup Promises)] :
        Q = Waiting /\ R = Waiting'
  BY <1>1
<1>3. \A v \in Places : v # w => R[v] = Q[v]
  BY <1>0, <1>2, OthersWait
<1>4. R[w] = Append(Q[w], e) /\ ~ In(Q, e) /\ \A x \in Items \cup Promises : Once(Q, x)
  BY <1>2, OnceWaits
<1>5. \A x \in Items \cup Promises : (In(R, x) <=> In(Q, x) \/ x = e) /\ Once(R, x)
  <2>1. Appended(Places, Items \cup Promises, Q, R, w, e)
    BY <1>2, <1>3, <1>4 DEF Appended
  <2>2. QED
    BY <1>4, <2>1, QueueAppend
<1>6. QED
  BY <1>2, <1>5

LEMMA WaitMove ==
  ASSUME ProgressInv, TypeOK', NEW w \in Places, NEW b \in Places, w # b, Waiting[b] = <<>>,
         NEW n \in Nat, Waiting'[b] = Taken(Waiting[w], n),
         Waiting'[w] = SubSeq(Waiting[w], n + 1, Len(Waiting[w])), PlacesKeep(w, b)
  PROVE  \A x \in Items \cup Promises : (In(Waiting', x) <=> In(Waiting, x)) /\ Once(Waiting', x)
<1>0. TypeOK
  BY DEF ProgressInv
<1>1. Waiting \in [Places -> Seq(Items \cup Promises)] /\ Waiting' \in [Places -> Seq(Items \cup Promises)]
  BY <1>0, WaitingTyped, WaitingTypedNext DEF WaitingIs
<1>2. PICK Q \in [Places -> Seq(Items \cup Promises)], R \in [Places -> Seq(Items \cup Promises)] :
        Q = Waiting /\ R = Waiting'
  BY <1>1
<1>3. \A v \in Places : v # w /\ v # b => R[v] = Q[v]
  BY <1>0, <1>2, OthersWait
<1>4. /\ Q[b] = <<>> /\ R[b] = Taken(Q[w], n) /\ R[w] = SubSeq(Q[w], n + 1, Len(Q[w]))
      /\ \A x \in Items \cup Promises : Once(Q, x)
  BY <1>2, OnceWaits
<1>5. \A x \in Items \cup Promises : (In(R, x) <=> In(Q, x)) /\ Once(R, x)
  <2>1. Moved(Places, Items \cup Promises, Q, R, w, b, n)
    BY <1>2, <1>3, <1>4 DEF Moved
  <2>2. QED
    BY <1>4, <2>1, QueueMove
<1>6. QED
  BY <1>2, <1>5

LEMMA WaitTake ==
  ASSUME ProgressInv, TypeOK', NEW b \in Places, Waiting[b] # <<>>, Waiting'[b] = Tail(Waiting[b]),
         PlacesKeep(b, b), NEW h, h = Head(Waiting[b])
  PROVE  /\ h \in Items \cup Promises /\ In(Waiting, h)
         /\ \A x \in Items \cup Promises : (In(Waiting', x) <=> In(Waiting, x) /\ x # h) /\ Once(Waiting', x)
<1>0. TypeOK
  BY DEF ProgressInv
<1>1. Waiting \in [Places -> Seq(Items \cup Promises)] /\ Waiting' \in [Places -> Seq(Items \cup Promises)]
  BY <1>0, WaitingTyped, WaitingTypedNext DEF WaitingIs
<1>2. PICK Q \in [Places -> Seq(Items \cup Promises)], R \in [Places -> Seq(Items \cup Promises)] :
        Q = Waiting /\ R = Waiting'
  BY <1>1
<1>3. \A v \in Places : v # b => R[v] = Q[v]
  BY <1>0, <1>2, OthersWait
<1>4. /\ Q[b] # <<>> /\ R[b] = Tail(Q[b]) /\ h = Head(Q[b])
      /\ \A x \in Items \cup Promises : Once(Q, x)
  BY <1>2, OnceWaits
<1>5. h \in Items \cup Promises
  BY <1>4, TailFacts
<1>6. In(Q, h) /\ \A x \in Items \cup Promises : (In(R, x) <=> In(Q, x) /\ x # h) /\ Once(R, x)
  <2>1. Took(Places, Items \cup Promises, Q, R, b)
    BY <1>2, <1>3, <1>4 DEF Took
  <2>2. Once(Q, Head(Q[b])) /\ Once(Q, h)
    BY <1>4, <1>5
  <2>3. In(Q, Head(Q[b]))
    BY <2>1, <2>2, QueueTake
  <2>4. \A x \in Items \cup Promises : (In(R, x) <=> In(Q, x) /\ x # Head(Q[b])) /\ Once(R, x)
    BY <1>4, <2>1, <2>2, QueueTake
  <2>5. QED
    BY <1>4, <2>3, <2>4
<1>7. QED
  BY <1>2, <1>5, <1>6

\* Nothing starts or ends waiting.
LEMMA WaitKeeps ==
  ASSUME ProgressInv, TypeOK', UNCHANGED queues, \A u \in Threads : prog'[u].batch = prog[u].batch,
         \A i \in Items : state'[i] = "queued" <=> state[i] = "queued",
         \A x \in Promises : pro'[x].deferred > 0 <=> pro[x].deferred > 0
  PROVE  ItemsWait' /\ PromisesWait'
<1>1. Waiting' = Waiting
  BY WaitSame DEF ProgressInv
<1>2. ItemsWait /\ PromisesWait
  BY InvParts
<1>3. QED
  BY <1>1, <1>2 DEF ItemsWait, PromisesWait

LEMMA CountKeeps ==
  ASSUME PromisesCount, UNCHANGED <<pros, pro, pending>>,
         \A x \in Promises : state'[x] = "new" <=> state[x] = "new"
  PROVE  PromisesCount'
BY DEF PromisesCount

-----------------------------------------------------------------------------
(* The steps                                                               *)

\* What the invariant says of one thread.
LEMMA ThreadFacts ==
  ASSUME ProgressInv, NEW t \in Threads
  PROVE  /\ TypeOK /\ ScopesExact /\ ItemsRun /\ PromisesCount
         /\ LevelsOK(progressing[t], burstable[t], prog[t], frames[t])
         /\ StackOK(scopes[t], unique[t], prog[t], frames[t])
         /\ FramesOK(frames[t], prog[t]) /\ StackTypes(scopes[t], prog[t], frames[t])
         /\ burstable[t] \in BOOLEAN /\ progressing[t] \in Levels \cup {"none"} /\ prog[t] \in Call
         /\ top[t] = scopes[t][Len(scopes[t])].persona /\ top[t] \in Personas
         /\ Len(unique[t]) \in DOMAIN unique[t] /\ unique[t][Len(unique[t])] \in Personas
         /\ owner[unique[t][Len(unique[t])]] = t
<1>1. /\ TypeOK /\ ScopesExact /\ ItemsRun /\ PromisesCount
      /\ LevelsOK(progressing[t], burstable[t], prog[t], frames[t])
      /\ StackOK(scopes[t], unique[t], prog[t], frames[t])
  BY InvParts DEF ThreadOK
<1>2. /\ frames[t] \in Seq(Frame) /\ Len(frames[t]) \in Nat /\ DOMAIN frames[t] = 1 .. Len(frames[t])
      /\ \A k \in DOMAIN frames[t] : frames[t][k] \in Frame
      /\ scopes[t] \in Seq(Scope) /\ Len(scopes[t]) \in Nat /\ DOMAIN scopes[t] = 1 .. Len(scopes[t])
      /\ unique[t] \in Seq(Personas) /\ Len(unique[t]) \in Nat
      /\ DOMAIN unique[t] = 1 .. Len(unique[t])
      /\ \A k \in DOMAIN unique[t] : unique[t][k] \in Personas
      /\ prog[t] \in Call /\ prog[t].depth \in Nat
  BY <1>1, ThreadTypes
<1>3. \A k \in DOMAIN frames[t] : /\ frames[t][k].own \in BOOLEAN /\ frames[t][k].level \in Levels
                                  /\ frames[t][k].base \in Nat
  BY <1>2 DEF Frame
<1>4. FramesOK(frames[t], prog[t])
  BY <1>2, <1>3 DEF FramesOK
<1>5. StackTypes(scopes[t], prog[t], frames[t])
  BY <1>1, <1>2, <1>3 DEF StackTypes, LevelsOK
<1>6. Len(unique[t]) \in DOMAIN unique[t]
  <2>1. 1 \in DOMAIN scopes[t] /\ scopes[t][1].kind = "unique"
    BY <1>1, <1>2 DEF StackOK, ScopesNest
  <2>2. PICK n \in DOMAIN unique[t] : TRUE
    BY <1>1, <2>1 DEF ScopesExact, ChainExact
  <2>3. QED
    BY <1>2, <2>2
<1>7. unique[t][Len(unique[t])] \in Personas /\ owner[unique[t][Len(unique[t])]] = t
  BY <1>1, <1>2, <1>6 DEF ScopesExact
<1>8. /\ burstable[t] \in BOOLEAN /\ progressing[t] \in Levels \cup {"none"}
      /\ top[t] = scopes[t][Len(scopes[t])].persona /\ top[t] \in Personas
  BY <1>1 DEF TypeOK, ScopesExact
<1>9. QED
  BY <1>1, <1>2, <1>4, <1>5, <1>6, <1>7, <1>8

\* User code runs above the visit of its thread, if there is one; neither user
\* code nor runtime code runs while a visit ends.
LEMMA CodeFacts ==
  ASSUME ProgressInv, NEW t \in Threads
  PROVE  /\ UserCode(t) => (Visiting(prog[t]) => Len(frames[t]) > prog[t].depth)
         /\ UserCode(t) \/ RuntimeCode(t) => prog[t].phase # "leave"
<1>1. LevelsOK(progressing[t], burstable[t], prog[t], frames[t]) /\ FramesOK(frames[t], prog[t])
  BY ThreadFacts
<1>2. ASSUME UserCode(t)
      PROVE  Len(frames[t]) > prog[t].depth \/ prog[t].phase = "idle"
  BY <1>2 DEF UserCode, InFrame, Phase
<1>3. ASSUME RuntimeCode(t)
      PROVE  Len(frames[t]) > prog[t].depth \/ prog[t].phase \in {"idle", "poll", "handles"}
  BY <1>3 DEF RuntimeCode, InFrame, Phase
<1>4. prog[t].phase = "leave" => ~ (Len(frames[t]) > prog[t].depth)
  BY <1>1 DEF LevelsOK, FramesOK
<1>5. QED
  BY <1>2, <1>3, <1>4 DEF Visiting

LEMMA StepParts ==
  ASSUME ProgressInv, NEW t \in Threads, TypeOK', ScopesExact', ItemsWait', ItemsRun', PromisesWait',
         PromisesCount', Elsewhere(t), ThreadOK(t)'
  PROVE  ProgressInv'
BY InvPartsNext, ThreadsStep

\* A step that lets nothing wait, run or return.
LEMMA QuietStep ==
  ASSUME ProgressInv, NEW t \in Threads, TypeOK', ScopesExact', Elsewhere(t), ThreadOK(t)',
         UNCHANGED <<queues, promises, state, frames>>, prog'[t].batch = prog[t].batch
  PROVE  ProgressInv'
<1>1. \A u \in Threads : prog'[u].batch = prog[u].batch
  BY DEF Elsewhere
<1>2. pro' = pro /\ pending' = pending /\ pros' = pros /\ UNCHANGED queues
  BY DEF queues, promises
<1>3. ItemsWait' /\ PromisesWait'
  BY <1>1, <1>2, WaitKeeps
<1>4. ItemsRun' /\ PromisesCount'
  BY <1>2, InvParts, RunKeeps, CountKeeps
<1>5. QED
  BY <1>3, <1>4, StepParts

LEMMA PushScopeStep ==
  ASSUME ProgressInv, NEW t \in Threads, NEW p \in Personas, PushScope(t, p)
  PROVE  ProgressInv'
<1>0. /\ TypeOK /\ ScopesExact /\ StackOK(scopes[t], unique[t], prog[t], frames[t])
      /\ StackTypes(scopes[t], prog[t], frames[t]) /\ top[t] = scopes[t][Len(scopes[t])].persona
      /\ top[t] \in Personas /\ LevelsOK(progressing[t], burstable[t], prog[t], frames[t])
      /\ (Visiting(prog[t]) => Len(frames[t]) > prog[t].depth)
  BY ThreadFacts, CodeFacts DEF PushScope
<1>a. UNCHANGED <<progressing, burstable, queues, promises, prog, frames, state>>
  BY DEF PushScope
<1>b. PICK s : s = [persona |-> p, kind |-> IF owner[p] = Nobody THEN "unique" ELSE "again", saved |-> top[t]]
  OBVIOUS
<1>c. /\ s \in Scope /\ s.persona = p /\ s.saved = scopes[t][Len(scopes[t])].persona
      /\ s.kind = (IF owner[p] = Nobody THEN "unique" ELSE "again")
  BY <1>0, <1>b DEF Scope
<1>d. scopes' = [scopes EXCEPT ![t] = Append(@, s)] /\ top' = [top EXCEPT ![t] = p]
  BY <1>b DEF PushScope
<1>1. CASE owner[p] = Nobody
  <2>1. owner' = [owner EXCEPT ![p] = t] /\ unique' = [unique EXCEPT ![t] = Append(@, p)]
    BY <1>1 DEF PushScope
  <2>2. /\ ScopesExact' /\ ScopeTypes'
        /\ \A u \in Threads : u # t => scopes'[u] = scopes[u] /\ unique'[u] = unique[u]
        /\ Pushed(scopes[t], scopes'[t], Len(scopes[t]), s)
        /\ Pushed(unique[t], unique'[t], Len(unique[t]), p)
        /\ \A k \in DOMAIN scopes[t] : scopes[t][k].persona # p
    BY <1>0, <1>1, <1>c, <1>d, <2>1, ScopesPushUnique
  <2>3. StackOK(scopes'[t], unique'[t], prog[t], frames[t])
    <3>1. \A n \in DOMAIN unique[t] : n \in DOMAIN unique'[t] /\ unique'[t][n] = unique[t][n]
      BY <2>2 DEF Pushed
    <3>2. QED
      BY <1>0, <1>c, <2>2, <3>1, StackPush
  <2>4. TypeOK'
    BY <1>0, <1>a, <2>2 DEF TypeOK, ScopeTypes, queues, promises
  <2>5. Elsewhere(t) /\ ThreadOK(t)'
    BY <1>0, <1>a, <2>2, <2>3 DEF Elsewhere, ThreadOK
  <2>6. QED
    BY <1>a, <2>2, <2>4, <2>5, QuietStep
<1>2. CASE owner[p] # Nobody
  <2>1. owner' = owner /\ unique' = unique /\ owner[p] = t
    <3>1. owner[p] = t /\ owner' = [owner EXCEPT ![p] = t] /\ unique' = unique
      BY <1>2 DEF PushScope
    <3>2. QED
      BY <1>0, <3>1 DEF TypeOK
  <2>2. /\ ScopesExact' /\ ScopeTypes' /\ \A u \in Threads : u # t => scopes'[u] = scopes[u]
        /\ Pushed(scopes[t], scopes'[t], Len(scopes[t]), s)
    BY <1>0, <1>2, <1>c, <1>d, <2>1, ScopesPush
  <2>3. StackOK(scopes'[t], unique[t], prog[t], frames[t])
    BY <1>0, <1>2, <1>c, <2>2, StackPush
  <2>4. TypeOK'
    BY <1>0, <1>a, <2>2 DEF TypeOK, ScopeTypes, queues, promises
  <2>5. Elsewhere(t) /\ ThreadOK(t)'
    BY <1>0, <1>a, <2>1, <2>2, <2>3 DEF Elsewhere, ThreadOK
  <2>6. QED
    BY <1>a, <2>2, <2>4, <2>5, QuietStep
<1>3. QED
  BY <1>1, <1>2

LEMMA PopScopeStep ==
  ASSUME ProgressInv, NEW t \in Threads, PopScope(t)
  PROVE  ProgressInv'
<1>0. /\ TypeOK /\ ScopesExact /\ StackOK(scopes[t], unique[t], prog[t], frames[t])
      /\ StackTypes(scopes[t], prog[t], frames[t])
      /\ LevelsOK(progressing[t], burstable[t], prog[t], frames[t])
      /\ (Visiting(prog[t]) => Len(frames[t]) > prog[t].depth)
  BY ThreadFacts, CodeFacts DEF PopScope
<1>a. UNCHANGED <<progressing, burstable, queues, promises, prog, frames, state>>
  BY DEF PopScope
<1>b. PICK s : s = scopes[t][Len(scopes[t])]
  OBVIOUS
<1>c. /\ scopes' = [scopes EXCEPT ![t] = SubSeq(@, 1, Len(@) - 1)]
      /\ top' = [top EXCEPT ![t] = scopes[t][Len(scopes[t]) - 1].persona]
  BY DEF PopScope
<1>d. /\ Len(scopes[t]) >= 2 /\ Len(scopes[t]) - 1 \in Nat /\ Len(scopes[t]) - 1 >= 1
      /\ \A k \in DOMAIN frames[t] : frames[t][k].base <= Len(scopes[t]) - 1
  <2>1. Len(scopes[t]) \in Nat /\ Len(scopes[t]) > Base(t)
    BY <1>0 DEF PopScope, StackTypes
  <2>2. CASE frames[t] = <<>>
    BY <2>1, <2>2 DEF Base
  <2>3. CASE frames[t] # <<>>
    <3>1. PICK N \in DOMAIN frames[t] : N = Len(frames[t])
      <4>1. Len(frames[t]) # 0
        BY <1>0, <2>3, EmptySeq DEF TypeOK
      <4>2. QED
        BY <1>0, <4>1 DEF StackTypes
    <3>2. Base(t) = frames[t][N].base /\ frames[t][N].base \in Nat /\ 2 <= frames[t][N].base
      BY <1>0, <2>3, <3>1 DEF Base, Inner, StackOK, FramesNest, StackTypes
    <3>3. \A k \in DOMAIN frames[t] : frames[t][k].base \in Nat /\ frames[t][k].base <= frames[t][N].base
      <4>1. \A k \in DOMAIN frames[t] : frames[t][k].base \in Nat /\ (k = N \/ k < N)
        BY <1>0, <3>1 DEF StackTypes
      <4>2. \A k \in DOMAIN frames[t] : k < N => frames[t][k].base < frames[t][N].base
        BY <1>0 DEF StackOK, FramesNest
      <4>3. QED
        BY <3>2, <4>1, <4>2
    <3>4. QED
      BY <2>1, <3>2, <3>3
  <2>4. QED
    BY <2>2, <2>3
<1>1. CASE s.kind = "unique"
  <2>1. /\ owner' = [owner EXCEPT ![s.persona] = Nobody]
        /\ unique' = [unique EXCEPT ![t] = SubSeq(@, 1, Len(@) - 1)]
    BY <1>1, <1>b DEF PopScope
  <2>a. \A k \in DOMAIN scopes[t] : k < Len(scopes[t]) => scopes[t][k].persona # s.persona
    <3>1. Len(scopes[t]) \in DOMAIN scopes[t]
      BY <1>0, <1>d DEF StackTypes
    <3>2. QED
      BY <1>0, <1>1, <1>b, <3>1 DEF StackOK, ScopesNest
  <2>2. /\ ScopesExact' /\ ScopeTypes'
        /\ \A u \in Threads : u # t => scopes'[u] = scopes[u] /\ unique'[u] = unique[u]
        /\ Pushed(scopes'[t], scopes[t], Len(scopes[t]) - 1, s)
        /\ Pushed(unique'[t], unique[t], Len(unique[t]) - 1, s.persona)
    BY <1>0, <1>1, <1>b, <1>c, <1>d, <2>1, <2>a, ScopesPopUnique
  <2>3. StackOK(scopes'[t], unique'[t], prog[t], frames[t])
    <3>1. \A n \in DOMAIN unique[t] : \/ n \in DOMAIN unique'[t] /\ unique'[t][n] = unique[t][n]
                                      \/ s.kind = "unique" /\ unique[t][n] = s.persona
      <4>1. PICK U, V, N : U = unique'[t] /\ V = unique[t] /\ Pushed(U, V, N, s.persona)
        BY <2>2
      <4>2. \A n \in DOMAIN V : (n \in DOMAIN U /\ U[n] = V[n]) \/ V[n] = s.persona
        BY <4>1 DEF Pushed
      <4>3. QED
        BY <1>1, <4>1, <4>2
    <3>2. QED
      BY <1>0, <1>d, <2>2, <3>1, StackPop
  <2>4. TypeOK'
    BY <1>0, <1>a, <2>2 DEF TypeOK, ScopeTypes, queues, promises
  <2>5. Elsewhere(t) /\ ThreadOK(t)'
    BY <1>0, <1>a, <2>2, <2>3 DEF Elsewhere, ThreadOK
  <2>6. QED
    BY <1>a, <2>2, <2>4, <2>5, QuietStep
<1>2. CASE s.kind # "unique"
  <2>1. owner' = owner /\ unique' = unique
    BY <1>2, <1>b DEF PopScope
  <2>2. /\ ScopesExact' /\ ScopeTypes' /\ \A u \in Threads : u # t => scopes'[u] = scopes[u]
        /\ Pushed(scopes'[t], scopes[t], Len(scopes[t]) - 1, s)
    BY <1>0, <1>2, <1>b, <1>c, <1>d, <2>1, ScopesPop
  <2>3. StackOK(scopes'[t], unique[t], prog[t], frames[t])
    BY <1>0, <1>d, <2>2, StackPop
  <2>4. TypeOK'
    BY <1>0, <1>a, <2>2 DEF TypeOK, ScopeTypes, queues, promises
  <2>5. Elsewhere(t) /\ ThreadOK(t)'
    BY <1>0, <1>a, <2>1, <2>2, <2>3 DEF Elsewhere, ThreadOK
  <2>6. QED
    BY <1>a, <2>2, <2>4, <2>5, QuietStep
<1>3. QED
  BY <1>1, <1>2

LEMMA FlipBit ==
  ASSUME TypeOK, NEW t \in Threads, NEW B \in BOOLEAN,
         burstable' = IF B THEN [burstable EXCEPT ![t] = ~ @] ELSE burstable
  PROVE  /\ burstable' \in [Threads -> BOOLEAN]
         /\ burstable'[t] <=> IF B THEN ~ burstable[t] ELSE burstable[t]
         /\ \A u \in Threads : u # t => burstable'[u] = burstable[u]
<1>1. CASE B
  <2>1. burstable \in [Threads -> BOOLEAN] /\ burstable' = [burstable EXCEPT ![t] = ~ burstable[t]]
    BY <1>1 DEF TypeOK
  <2>2. QED
    BY <1>1, <2>1
<1>2. CASE ~ B
  BY <1>2 DEF TypeOK
<1>3. QED
  BY <1>1, <1>2

LEMMA IdleCall ==
  Idle \in Call /\ Idle.phase = "idle" /\ Idle.batch = <<>> /\ Idle.at = 0 /\ Idle.depth = 0
<1>1. <<>> \in Seq(Items \cup Promises)
  BY EmptySeq
<1>2. QED
  BY <1>1 DEF Idle, Call, Phases

\* A progress call is where it is told to be.
LEMMA CallMoves ==
  ASSUME TypeOK, NEW t \in Threads, NEW d \in Call, prog' = [prog EXCEPT ![t] = d]
  PROVE  /\ prog' \in [Threads -> Call] /\ prog'[t] = d
         /\ \A u \in Threads : u # t => prog'[u] = prog[u]
BY DEF TypeOK

LEMMA ProgressBeginStep ==
  ASSUME ProgressInv, NEW t \in Threads, NEW l \in Levels, ProgressBegin(t, l)
  PROVE  ProgressInv'
<1>0. /\ TypeOK /\ ScopesExact /\ StackOK(scopes[t], unique[t], prog[t], frames[t])
      /\ burstable[t] \in BOOLEAN /\ FramesOK(frames[t], prog[t]) /\ prog[t] \in Call
      /\ LevelsOK(progressing[t], burstable[t], prog[t], frames[t])
  BY ThreadFacts
<1>a. UNCHANGED <<owner, stack, unique, queues, promises, frames, state>> /\ progressing[t] = "none"
  BY DEF ProgressBegin
<1>b. PICK d : d = [Idle EXCEPT !.phase = "poll", !.cap = ProgressCap, !.depth = Len(frames[t])]
  OBVIOUS
<1>c. d \in Call /\ d.phase = "poll" /\ d.depth = Len(frames[t]) /\ d.batch = <<>>
  <2>1. PICK i \in Call : i = Idle /\ i.batch = <<>>
    BY IdleCall
  <2>2. ProgressCap \in Nat /\ Len(frames[t]) \in Nat /\ "poll" \in Phases
    BY <1>0, ProgressAssumption DEF Phases, FramesOK
  <2>3. d = [i EXCEPT !.phase = "poll", !.cap = ProgressCap, !.depth = Len(frames[t])]
    BY <1>b, <2>1
  <2>4. QED
    BY <2>1, <2>2, <2>3 DEF Call
<1>d. prog' = [prog EXCEPT ![t] = d] /\ progressing' = [progressing EXCEPT ![t] = l]
  BY <1>b DEF ProgressBegin
<1>e. /\ prog' \in [Threads -> Call] /\ prog'[t] = d
      /\ \A u \in Threads : u # t => prog'[u] = prog[u]
  BY <1>0, <1>c, <1>d, CallMoves
<1>f. PICK B \in BOOLEAN : B <=> l = "user"
  OBVIOUS
<1>g. /\ burstable' \in [Threads -> BOOLEAN]
      /\ burstable'[t] <=> IF B THEN ~ burstable[t] ELSE burstable[t]
      /\ \A u \in Threads : u # t => burstable'[u] = burstable[u]
  <2>1. burstable' = IF B THEN [burstable EXCEPT ![t] = ~ @] ELSE burstable
    BY <1>f DEF ProgressBegin
  <2>2. QED
    BY <1>0, <2>1, FlipBit
<1>h. /\ progressing' \in [Threads -> Levels \cup {"none"}] /\ progressing'[t] = l
      /\ \A u \in Threads : u # t => progressing'[u] = progressing[u]
  BY <1>0, <1>d DEF TypeOK
<1>1. LevelsOK(l, burstable'[t], d, frames[t])
  <2>1. burstable'[t] <=> IF l = "user" THEN ~ burstable[t] ELSE burstable[t]
    BY <1>f, <1>g
  <2>2. LevelsOK("none", burstable[t], prog[t], frames[t])
    BY <1>0, <1>a
  <2>3. QED
    BY <1>0, <1>c, <2>1, <2>2, LevelsBegin
<1>2. StackOK(scopes[t], unique[t], d, frames[t])
  <2>1. ~ Visiting(d)
    BY <1>c DEF Visiting
  <2>2. QED
    BY <1>0, <2>1, StackCall
<1>3. TypeOK'
  BY <1>0, <1>a, <1>e, <1>g, <1>h DEF TypeOK, queues, promises, stack
<1>4. ScopesExact'
  BY <1>0, <1>a DEF ScopesExact, stack
<1>5. Elsewhere(t) /\ ThreadOK(t)'
  BY <1>1, <1>2, <1>a, <1>e, <1>g, <1>h DEF Elsewhere, ThreadOK, stack
<1>6. prog'[t].batch = prog[t].batch
  BY <1>0, <1>a, <1>c, <1>e DEF LevelsOK
<1>7. QED
  BY <1>3, <1>4, <1>5, <1>6, <1>a, QuietStep

\* The scope of the first visit of a sweep.
LEMMA VisitPush ==
  ASSUME ProgressInv, NEW t \in Threads, PushRedundant(t, unique[t][Len(unique[t])]), UNCHANGED <<owner, unique>>,
         NEW d, d.depth = Len(frames[t]), d.at = Len(unique[t])
  PROVE  /\ ScopesExact' /\ ScopeTypes' /\ \A u \in Threads : u # t => scopes'[u] = scopes[u]
         /\ StackOK(scopes'[t], unique[t], d, frames[t])
<1>0. /\ TypeOK /\ ScopesExact /\ StackOK(scopes[t], unique[t], prog[t], frames[t])
      /\ StackTypes(scopes[t], prog[t], frames[t])
      /\ top[t] = scopes[t][Len(scopes[t])].persona /\ top[t] \in Personas
      /\ Len(unique[t]) \in DOMAIN unique[t] /\ unique[t][Len(unique[t])] \in Personas
      /\ owner[unique[t][Len(unique[t])]] = t
  BY ThreadFacts
<1>1. PICK s : s = [persona |-> unique[t][Len(unique[t])], kind |-> "redundant", saved |-> top[t]]
  OBVIOUS
<1>2. /\ s \in Scope /\ s.persona = unique[t][Len(unique[t])] /\ s.kind = "redundant"
      /\ s.saved = scopes[t][Len(scopes[t])].persona
  BY <1>0, <1>1 DEF Scope
<1>3. scopes' = [scopes EXCEPT ![t] = Append(@, s)] /\ top' = [top EXCEPT ![t] = s.persona]
  BY <1>1, <1>2 DEF PushRedundant
<1>4. /\ ScopesExact' /\ ScopeTypes' /\ \A u \in Threads : u # t => scopes'[u] = scopes[u]
      /\ Pushed(scopes[t], scopes'[t], Len(scopes[t]), s)
  BY <1>0, <1>2, <1>3, ScopesPush
<1>5. StackOK(scopes'[t], unique[t], d, frames[t])
  BY <1>0, <1>2, <1>4, StackVisit
<1>6. QED
  BY <1>4, <1>5

LEMMA AfterGasnetStep ==
  ASSUME ProgressInv, NEW t \in Threads, AfterGasnet(t)
  PROVE  ProgressInv'
<1>0. /\ TypeOK /\ ScopesExact /\ burstable[t] \in BOOLEAN /\ FramesOK(frames[t], prog[t])
      /\ LevelsOK(progressing[t], burstable[t], prog[t], frames[t])
      /\ Len(unique[t]) \in DOMAIN unique[t] /\ Len(unique[t]) \in Nat
  BY ThreadFacts, ThreadTypes
<1>a. /\ UNCHANGED <<owner, unique, burstable, queues, promises, frames, state>> /\ progressing[t] = "none"
      /\ PushRedundant(t, unique[t][Len(unique[t])])
  BY DEF AfterGasnet
<1>b. PICK d : d = [[Idle EXCEPT !.cap = AfterCap, !.depth = Len(frames[t])]
                      EXCEPT !.at = Len(unique[t]), !.phase = "handles"]
  OBVIOUS
<1>c. /\ d \in Call /\ d.phase = "handles" /\ d.depth = Len(frames[t]) /\ d.batch = <<>>
      /\ d.at = Len(unique[t])
  <2>1. PICK i \in Call : i = Idle /\ i.batch = <<>>
    BY IdleCall
  <2>2. AfterCap \in Nat /\ Len(frames[t]) \in Nat /\ "handles" \in Phases
    BY <1>0, ProgressAssumption DEF Phases, FramesOK
  <2>3. PICK j : j = [i EXCEPT !.cap = AfterCap, !.depth = Len(frames[t])]
    OBVIOUS
  <2>4. j \in Call /\ j.batch = <<>> /\ j.depth = Len(frames[t])
    BY <2>1, <2>2, <2>3 DEF Call
  <2>5. d = [j EXCEPT !.at = Len(unique[t]), !.phase = "handles"]
    BY <1>b, <2>1, <2>3
  <2>6. QED
    BY <1>0, <2>2, <2>4, <2>5 DEF Call
<1>d. prog' = [prog EXCEPT ![t] = d] /\ progressing' = [progressing EXCEPT ![t] = "internal"]
  BY <1>b DEF AfterGasnet, Visit
<1>e. /\ prog' \in [Threads -> Call] /\ prog'[t] = d
      /\ \A u \in Threads : u # t => prog'[u] = prog[u]
  BY <1>0, <1>c, <1>d, CallMoves
<1>h. /\ progressing' \in [Threads -> Levels \cup {"none"}] /\ progressing'[t] = "internal"
      /\ \A u \in Threads : u # t => progressing'[u] = progressing[u]
  BY <1>0, <1>d DEF TypeOK, Levels
<1>1. LevelsOK("internal", burstable[t], d, frames[t])
  <2>1. "internal" \in Levels /\ (burstable[t] <=> IF "internal" = "user" THEN ~ burstable[t] ELSE burstable[t])
    BY DEF Levels
  <2>2. LevelsOK("none", burstable[t], prog[t], frames[t])
    BY <1>0, <1>a
  <2>3. QED
    BY <1>0, <1>c, <2>1, <2>2, LevelsBegin
<1>2. /\ ScopesExact' /\ ScopeTypes' /\ \A u \in Threads : u # t => scopes'[u] = scopes[u]
      /\ StackOK(scopes'[t], unique[t], d, frames[t])
  BY <1>a, <1>c, VisitPush
<1>3. TypeOK'
  BY <1>0, <1>2, <1>a, <1>e, <1>h DEF TypeOK, ScopeTypes, queues, promises
<1>5. Elsewhere(t) /\ ThreadOK(t)'
  BY <1>1, <1>2, <1>a, <1>e, <1>h DEF Elsewhere, ThreadOK
<1>6. prog'[t].batch = prog[t].batch
  BY <1>0, <1>a, <1>c, <1>e DEF LevelsOK
<1>7. QED
  BY <1>2, <1>3, <1>5, <1>6, <1>a, QuietStep

LEMMA PollEndStep ==
  ASSUME ProgressInv, NEW t \in Threads, PollEnd(t)
  PROVE  ProgressInv'
<1>0. /\ TypeOK /\ ScopesExact /\ burstable[t] \in BOOLEAN /\ FramesOK(frames[t], prog[t]) /\ prog[t] \in Call
      /\ LevelsOK(progressing[t], burstable[t], prog[t], frames[t])
      /\ Len(unique[t]) \in DOMAIN unique[t] /\ Len(unique[t]) \in Nat
  BY ThreadFacts, ThreadTypes
<1>a. /\ UNCHANGED <<owner, unique, progressing, burstable, queues, promises, frames, state>>
      /\ PushRedundant(t, unique[t][Len(unique[t])]) /\ prog[t].phase = "poll"
      /\ Len(frames[t]) = prog[t].depth
  BY <1>0 DEF PollEnd, Phase, InFrame, LevelsOK, FramesOK
<1>b. PICK d : d = [prog[t] EXCEPT !.at = Len(unique[t]), !.phase = "handles"]
  OBVIOUS
<1>c. /\ d \in Call /\ d.phase = "handles" /\ d.depth = prog[t].depth /\ d.batch = prog[t].batch
      /\ d.at = Len(unique[t])
  BY <1>0, <1>b DEF Call, Phases
<1>d. prog' = [prog EXCEPT ![t] = d]
  BY <1>b DEF PollEnd, Visit
<1>e. /\ prog' \in [Threads -> Call] /\ prog'[t] = d
      /\ \A u \in Threads : u # t => prog'[u] = prog[u]
  BY <1>0, <1>c, <1>d, CallMoves
<1>1. LevelsOK(progressing[t], burstable[t], d, frames[t])
  <2>1. /\ prog[t].phase \notin UserPhases /\ d.phase \notin UserPhases
        /\ d.batch = <<>> /\ prog[t].phase # "idle" /\ d.phase # "idle"
    BY <1>0, <1>a, <1>c DEF UserPhases, LevelsOK
  <2>2. burstable[t] <=> IF (prog[t].phase \in UserPhases) # (d.phase \in UserPhases)
                         THEN ~ burstable[t] ELSE burstable[t]
    BY <2>1
  <2>3. QED
    BY <1>0, <1>a, <1>c, <2>1, <2>2, LevelsPhase
<1>2. /\ ScopesExact' /\ ScopeTypes' /\ \A u \in Threads : u # t => scopes'[u] = scopes[u]
      /\ StackOK(scopes'[t], unique[t], d, frames[t])
  BY <1>a, <1>c, VisitPush
<1>3. TypeOK'
  BY <1>0, <1>2, <1>a, <1>e DEF TypeOK, ScopeTypes, queues, promises
<1>5. Elsewhere(t) /\ ThreadOK(t)'
  BY <1>1, <1>2, <1>a, <1>e DEF Elsewhere, ThreadOK
<1>6. QED
  BY <1>2, <1>3, <1>5, <1>a, <1>c, <1>e, QuietStep

\* A visit that ends, in the phase "leave", is the innermost thing its thread does.
LEMMA LeaveFacts ==
  ASSUME ProgressInv, NEW t \in Threads, prog[t].phase = "leave"
  PROVE  /\ Len(frames[t]) = prog[t].depth /\ Visiting(prog[t]) /\ prog[t].batch = <<>>
         /\ prog[t].at \in DOMAIN unique[t] /\ Len(scopes[t]) \in Nat /\ 2 <= Len(scopes[t])
         /\ scopes[t][Len(scopes[t])].kind = "redundant"
         /\ scopes[t][Len(scopes[t])].saved = scopes[t][Len(scopes[t]) - 1].persona
<1>0. /\ StackOK(scopes[t], unique[t], prog[t], frames[t]) /\ StackTypes(scopes[t], prog[t], frames[t])
      /\ LevelsOK(progressing[t], burstable[t], prog[t], frames[t]) /\ FramesOK(frames[t], prog[t])
  BY ThreadFacts
<1>1. Len(frames[t]) = prog[t].depth /\ Visiting(prog[t]) /\ prog[t].batch = <<>>
  BY <1>0 DEF LevelsOK, Visiting
<1>2. VisitNests(scopes[t], unique[t], prog[t], frames[t]) /\ ScopesNest(scopes[t])
  BY <1>0, <1>1 DEF StackOK
<1>3. VisitScope(scopes[t], prog[t], frames[t]) = Len(scopes[t]) /\ Len(scopes[t]) \in Nat
  BY <1>0, <1>1 DEF VisitScope, StackTypes
<1>4. /\ prog[t].at \in DOMAIN unique[t] /\ 2 <= Len(scopes[t])
      /\ scopes[t][Len(scopes[t])].kind = "redundant"
  BY <1>2, <1>3 DEF VisitNests
<1>5. Len(scopes[t]) \in DOMAIN scopes[t] /\ Len(scopes[t]) > 1
  BY <1>0, <1>3, <1>4 DEF StackTypes
<1>6. QED
  BY <1>1, <1>2, <1>3, <1>4, <1>5 DEF ScopesNest

LEMMA MoveVisitStep ==
  ASSUME ProgressInv, NEW t \in Threads, prog[t].phase = "leave", NEW n \in DOMAIN unique[t],
         NEW pr \in Call, pr.depth = prog[t].depth, pr.batch = prog[t].batch, MoveVisit(t, n, pr),
         UNCHANGED <<owner, unique, progressing, burstable, queues, promises, frames, state>>
  PROVE  ProgressInv'
<1>0. /\ TypeOK /\ ScopesExact /\ StackOK(scopes[t], unique[t], prog[t], frames[t])
      /\ StackTypes(scopes[t], prog[t], frames[t])
      /\ burstable[t] \in BOOLEAN /\ FramesOK(frames[t], prog[t]) /\ prog[t] \in Call
      /\ LevelsOK(progressing[t], burstable[t], prog[t], frames[t])
  BY ThreadFacts
<1>a. /\ Len(frames[t]) = prog[t].depth /\ Visiting(prog[t]) /\ prog[t].batch = <<>>
      /\ Len(scopes[t]) \in Nat /\ 2 <= Len(scopes[t])
      /\ scopes[t][Len(scopes[t])].kind = "redundant"
  BY LeaveFacts
<1>b. PICK d : d = [pr EXCEPT !.at = n, !.phase = "handles"]
  OBVIOUS
<1>c. /\ d \in Call /\ d.phase = "handles" /\ d.depth = prog[t].depth /\ d.batch = prog[t].batch
      /\ d.at = n
  <2>1. n \in Nat
    BY <1>0, ThreadTypes
  <2>2. QED
    BY <1>b, <2>1 DEF Call, Phases
<1>d. prog' = [prog EXCEPT ![t] = d]
  BY <1>b DEF MoveVisit, Visit
<1>e. /\ prog' \in [Threads -> Call] /\ prog'[t] = d
      /\ \A u \in Threads : u # t => prog'[u] = prog[u]
  BY <1>0, <1>c, <1>d, CallMoves
<1>1. LevelsOK(progressing[t], burstable[t], d, frames[t])
  <2>1. /\ prog[t].phase \notin UserPhases /\ d.phase \notin UserPhases
        /\ d.batch = <<>> /\ prog[t].phase # "idle" /\ d.phase # "idle"
    BY <1>a, <1>c DEF UserPhases
  <2>2. burstable[t] <=> IF (prog[t].phase \in UserPhases) # (d.phase \in UserPhases)
                         THEN ~ burstable[t] ELSE burstable[t]
    BY <2>1
  <2>3. QED
    BY <1>0, <1>a, <1>c, <2>1, <2>2, LevelsPhase
<1>2. PICK p \in Personas : p = unique[t][n] /\ owner[p] = t
  <2>1. unique[t][n] \in Personas
    BY <1>0, ThreadTypes
  <2>2. owner[unique[t][n]] = t
    BY <1>0, <2>1 DEF ScopesExact
  <2>3. QED
    BY <2>1, <2>2
<1>3. /\ ScopesExact' /\ ScopeTypes' /\ \A u \in Threads : u # t => scopes'[u] = scopes[u]
      /\ scopes'[t] = [scopes[t] EXCEPT ![Len(scopes[t])].persona = p]
  <2>1. /\ scopes' = [scopes EXCEPT ![t][Len(scopes[t])].persona = p]
        /\ top' = [top EXCEPT ![t] = p] /\ scopes[t][Len(scopes[t])].kind # "unique"
    BY <1>2, <1>a DEF MoveVisit
  <2>2. QED
    BY <1>0, <1>2, <2>1, ScopesMove
<1>4. StackOK(scopes'[t], unique[t], d, frames[t])
  <2>1. PICK S, R, L : /\ S = scopes[t] /\ R = scopes'[t] /\ L = Len(S) /\ 2 <= L /\ L \in Nat
                       /\ DOMAIN S = 1 .. L /\ S \in Seq(Scope) /\ R \in Seq(Scope)
    <3>1. scopes[t] \in Seq(Scope) /\ scopes'[t] \in Seq(Scope)
      BY <1>0, <1>3 DEF TypeOK, ScopeTypes
    <3>2. QED
      BY <1>0, <1>a, <3>1 DEF StackTypes
  <2>2. S[L] \in Scope /\ R = [S EXCEPT ![L].persona = p]
    BY <1>3, <2>1
  <2>3. PICK e : e = [S[L] EXCEPT !.persona = p]
    OBVIOUS
  <2>4. e.persona = p /\ e.kind = S[L].kind /\ e.saved = S[L].saved
    BY <2>2, <2>3 DEF Scope
  <2>5. R = [S EXCEPT ![L] = e]
    BY <2>2, <2>3
  <2>6. DOMAIN R = 1 .. L /\ R[L] = e /\ \A k \in 1 .. L : k < L => R[k] = S[k]
    BY <2>1, <2>5
  <2>7. Len(R) = L
    BY <2>1, <2>6, LenProperties
  <2>8. StackOK(R, unique[t], d, frames[t])
    <3>1. /\ StackTypes(S, prog[t], frames[t]) /\ StackOK(S, unique[t], prog[t], frames[t])
          /\ Visiting(prog[t]) /\ Len(frames[t]) = prog[t].depth
          /\ d.depth = prog[t].depth /\ d.at \in DOMAIN unique[t]
      BY <1>0, <1>a, <1>c, <2>1
    <3>2. R[L].kind = S[L].kind /\ R[L].saved = S[L].saved /\ R[L].persona = unique[t][d.at]
      BY <1>2, <1>c, <2>4, <2>6
    <3>3. L = Len(S) /\ Len(R) = L /\ DOMAIN R = 1 .. L /\ \A k \in 1 .. L : k < L => R[k] = S[k]
      BY <2>1, <2>6, <2>7
    <3>4. Replaced(S, R, L, unique[t][d.at])
      BY <3>2, <3>3 DEF Replaced
    <3>5. QED
      BY <3>1, <3>4, StackMove
  <2>9. QED
    BY <2>1, <2>8
<1>5. TypeOK'
  BY <1>0, <1>3, <1>e DEF TypeOK, ScopeTypes, queues, promises
<1>6. Elsewhere(t) /\ ThreadOK(t)'
  BY <1>1, <1>3, <1>4, <1>e DEF Elsewhere, ThreadOK
<1>7. QED
  BY <1>3, <1>5, <1>6, <1>c, <1>e, QuietStep

LEMMA VisitEndStep ==
  ASSUME ProgressInv, NEW t \in Threads, VisitEnd(t)
  PROVE  ProgressInv'
<1>1. prog[t].phase = "leave" /\ prog[t].at > 1 /\ MoveVisit(t, prog[t].at - 1, prog[t])
  BY DEF VisitEnd, Phase
<1>2. prog[t].at \in DOMAIN unique[t] /\ prog[t] \in Call /\ TypeOK
  BY <1>1, LeaveFacts, ThreadFacts
<1>3. PICK n \in DOMAIN unique[t] : n = prog[t].at - 1
  <2>1. DOMAIN unique[t] = 1 .. Len(unique[t]) /\ Len(unique[t]) \in Nat
    BY <1>2, ThreadTypes
  <2>2. QED
    BY <1>1, <1>2, <2>1
<1>4. QED
  BY <1>1, <1>2, <1>3, MoveVisitStep DEF VisitEnd

LEMMA SweepAgainStep ==
  ASSUME ProgressInv, NEW t \in Threads, SweepAgain(t)
  PROVE  ProgressInv'
<1>1. PICK pr : pr = [prog[t] EXCEPT !.total = Total(t), !.exec = 0]
  OBVIOUS
<1>2. prog[t].phase = "leave" /\ MoveVisit(t, Len(unique[t]), pr)
  BY <1>1 DEF SweepAgain, Phase
<1>3. prog[t] \in Call /\ Len(unique[t]) \in DOMAIN unique[t]
  BY ThreadFacts
<1>4. Total(t) \in Nat
  BY <1>3 DEF Total, Call
<1>5. pr \in Call /\ pr.depth = prog[t].depth /\ pr.batch = prog[t].batch
  BY <1>1, <1>3, <1>4 DEF Call
<1>6. QED
  BY <1>2, <1>3, <1>5, MoveVisitStep DEF SweepAgain

LEMMA ProgressEndStep ==
  ASSUME ProgressInv, NEW t \in Threads, ProgressEnd(t)
  PROVE  ProgressInv'
<1>0. /\ TypeOK /\ ScopesExact /\ StackOK(scopes[t], unique[t], prog[t], frames[t])
      /\ StackTypes(scopes[t], prog[t], frames[t])
      /\ burstable[t] \in BOOLEAN /\ FramesOK(frames[t], prog[t])
      /\ LevelsOK(progressing[t], burstable[t], prog[t], frames[t])
  BY ThreadFacts
<1>a. /\ UNCHANGED <<owner, unique, queues, promises, frames, state>> /\ prog[t].phase = "leave"
      /\ PopRedundant(t) /\ prog' = [prog EXCEPT ![t] = Idle]
      /\ progressing' = [progressing EXCEPT ![t] = "none"]
  BY DEF ProgressEnd, Phase
<1>b. /\ Len(frames[t]) = prog[t].depth /\ Visiting(prog[t]) /\ prog[t].batch = <<>>
      /\ Len(scopes[t]) \in Nat /\ Len(scopes[t]) >= 2
      /\ scopes[t][Len(scopes[t])].kind # "unique"
      /\ scopes[t][Len(scopes[t])].saved = scopes[t][Len(scopes[t]) - 1].persona
  BY <1>a, LeaveFacts
<1>c. /\ prog' \in [Threads -> Call] /\ prog'[t] = Idle
      /\ \A u \in Threads : u # t => prog'[u] = prog[u]
  BY <1>0, <1>a, IdleCall, CallMoves
<1>d. PICK B \in BOOLEAN : B <=> progressing[t] = "user"
  OBVIOUS
<1>e. /\ burstable' \in [Threads -> BOOLEAN]
      /\ burstable'[t] <=> IF B THEN ~ burstable[t] ELSE burstable[t]
      /\ \A u \in Threads : u # t => burstable'[u] = burstable[u]
  <2>1. burstable' = IF B THEN [burstable EXCEPT ![t] = ~ @] ELSE burstable
    BY <1>d DEF ProgressEnd
  <2>2. QED
    BY <1>0, <2>1, FlipBit
<1>f. /\ progressing' \in [Threads -> Levels \cup {"none"}] /\ progressing'[t] = "none"
      /\ \A u \in Threads : u # t => progressing'[u] = progressing[u]
  BY <1>0, <1>a DEF TypeOK
<1>1. LevelsOK("none", burstable'[t], Idle, frames[t])
  <2>1. burstable'[t] <=> IF progressing[t] = "user" THEN ~ burstable[t] ELSE burstable[t]
    BY <1>d, <1>e
  <2>2. QED
    BY <1>0, <1>a, <2>1, LevelsEnd
<1>2. /\ ScopesExact' /\ ScopeTypes' /\ \A u \in Threads : u # t => scopes'[u] = scopes[u]
      /\ Pushed(scopes'[t], scopes[t], Len(scopes[t]) - 1, scopes[t][Len(scopes[t])])
  <2>1. /\ scopes' = [scopes EXCEPT ![t] = SubSeq(@, 1, Len(@) - 1)]
        /\ top' = [top EXCEPT ![t] = scopes[t][Len(scopes[t]) - 1].persona]
    BY <1>a, <1>b DEF PopRedundant
  <2>2. QED
    BY <1>0, <1>a, <1>b, <2>1, ScopesPop
<1>3. StackOK(scopes'[t], unique[t], Idle, frames[t])
  <2>1. ~ Visiting(Idle)
    BY IdleCall DEF Visiting
  <2>2. QED
    BY <1>0, <1>2, <1>b, <2>1, StackEnd
<1>4. TypeOK'
  BY <1>0, <1>2, <1>a, <1>c, <1>e, <1>f DEF TypeOK, ScopeTypes, queues, promises
<1>5. Elsewhere(t) /\ ThreadOK(t)'
  BY <1>1, <1>2, <1>3, <1>a, <1>c, <1>e, <1>f DEF Elsewhere, ThreadOK
<1>6. prog'[t].batch = prog[t].batch
  BY <1>b, <1>c, IdleCall
<1>7. QED
  BY <1>2, <1>4, <1>5, <1>6, <1>a, QuietStep

\* A step that leaves the thread where it is.
LEMMA StayStep ==
  ASSUME ProgressInv, NEW t \in Threads, TypeOK', ItemsWait', ItemsRun', PromisesWait', PromisesCount',
         UNCHANGED <<owner, stack, unique, progressing, burstable, frames>>,
         NEW d, prog'[t] = d, \A u \in Threads : u # t => prog'[u] = prog[u],
         d.phase = prog[t].phase, d.depth = prog[t].depth, d.batch = prog[t].batch, d.at = prog[t].at
  PROVE  ProgressInv'
<1>1. /\ ScopesExact /\ LevelsOK(progressing[t], burstable[t], prog[t], frames[t])
      /\ StackOK(scopes[t], unique[t], prog[t], frames[t])
  BY ThreadFacts
<1>2. LevelsOK(progressing[t], burstable[t], d, frames[t])
  BY <1>1, LevelsSame
<1>3. StackOK(scopes[t], unique[t], d, frames[t])
  <2>1. Visiting(d) => Visiting(prog[t])
    BY DEF Visiting
  <2>2. QED
    BY <1>1, <2>1, StackCall
<1>4. ScopesExact'
  BY <1>1 DEF ScopesExact, stack
<1>5. Elsewhere(t) /\ ThreadOK(t)'
  BY <1>2, <1>3 DEF Elsewhere, ThreadOK, stack
<1>6. QED
  BY <1>4, <1>5, StepParts

LEMMA PromiseTypes ==
  ASSUME TypeOK, NEW x \in Promises
  PROVE  /\ pro[x] \in [countdown : Nat, deferred : Nat] /\ pro[x].countdown \in Nat
         /\ pro[x].deferred \in Nat /\ pending[x] \in Nat /\ x \notin Items /\ Home[x] \in Personas
BY ProgressAssumption DEF TypeOK, Promises, Personas

LEMMA StartOpStep ==
  ASSUME ProgressInv, NEW t \in Threads, NEW x \in Promises, StartOp(t, x)
  PROVE  ProgressInv'
<1>0. TypeOK /\ PromisesCount /\ ItemsRun
  BY InvParts
<1>a. UNCHANGED <<owner, stack, unique, progressing, burstable, queues, prog, frames, state>>
  BY DEF StartOp
<1>1. /\ pro[x].countdown \in Nat /\ pro[x].deferred \in Nat /\ pending[x] \in Nat
      /\ pro[x] \in [countdown : Nat, deferred : Nat]
  BY <1>0, PromiseTypes
<1>2. /\ pro' \in [Promises -> [countdown : Nat, deferred : Nat]] /\ pending' \in [Promises -> Nat]
      /\ pro'[x].countdown = pro[x].countdown + 1 /\ pro'[x].deferred = pro[x].deferred
      /\ pending'[x] = pending[x] + 1
      /\ \A y \in Promises : y # x => pro'[y] = pro[y] /\ pending'[y] = pending[y]
  <2>1. pro[x].countdown + 1 \in Nat /\ pending[x] + 1 \in Nat
    BY <1>1
  <2>2. /\ pro' \in [Promises -> [countdown : Nat, deferred : Nat]]
        /\ pro'[x].countdown = pro[x].countdown + 1 /\ pro'[x].deferred = pro[x].deferred
        /\ \A y \in Promises : y # x => pro'[y] = pro[y]
    BY <1>0, <1>1, <2>1 DEF StartOp, TypeOK
  <2>3. /\ pending' \in [Promises -> Nat] /\ pending'[x] = pending[x] + 1
        /\ \A y \in Promises : y # x => pending'[y] = pending[y]
    BY <1>0, <2>1 DEF StartOp, TypeOK
  <2>4. QED
    BY <2>2, <2>3
<1>3. TypeOK'
  BY <1>0, <1>2, <1>a DEF TypeOK, stack, queues
<1>4. ItemsWait' /\ PromisesWait'
  <2>1. \A y \in Promises : pro'[y].deferred = pro[y].deferred
    BY <1>2
  <2>2. QED
    BY <1>3, <1>a, <2>1, WaitKeeps
<1>5. ItemsRun'
  BY <1>0, <1>a, RunKeeps
<1>6. PromisesCount'
  <2>1. \A y \in Promises : pro'[y].countdown = pro'[y].deferred + pending'[y] + (IF state[y] = "new" THEN 1 ELSE 0)
    <3>1. CASE state[x] = "new"
      BY <1>0, <1>1, <1>2, <3>1 DEF PromisesCount
    <3>2. CASE state[x] # "new"
      BY <1>0, <1>1, <1>2, <3>2 DEF PromisesCount
    <3>3. QED
      BY <3>1, <3>2
  <2>2. QED
    BY <1>0, <1>a, <2>1 DEF PromisesCount, queues
<1>7. QED
  BY <1>3, <1>4, <1>5, <1>6, <1>a, StayStep

LEMMA FinalizeStep ==
  ASSUME ProgressInv, NEW t \in Threads, NEW x \in Promises, Finalize(t, x)
  PROVE  ProgressInv'
<1>0. TypeOK /\ PromisesCount /\ ItemsRun
  BY InvParts
<1>a. /\ UNCHANGED <<owner, stack, unique, progressing, burstable, queues, pending, prog, frames>>
      /\ state[x] = "new"
  BY DEF Finalize
<1>1. /\ pro[x].countdown \in Nat /\ pro[x].deferred \in Nat /\ pending[x] \in Nat /\ x \notin Items
      /\ pro[x] \in [countdown : Nat, deferred : Nat]
      /\ pro[x].countdown = pro[x].deferred + pending[x] + 1
  BY <1>0, <1>a, PromiseTypes DEF PromisesCount
<1>b. pro[x].countdown - 1 \in Nat
  BY <1>1
<1>2. /\ pro' \in [Promises -> [countdown : Nat, deferred : Nat]]
      /\ pro'[x].countdown = pro[x].countdown - 1 /\ pro'[x].deferred = pro[x].deferred
      /\ \A y \in Promises : y # x => pro'[y] = pro[y]
  BY <1>0, <1>1, <1>b DEF Finalize, TypeOK
<1>c. /\ state' \in [Items \cup Promises -> {"new", "queued", "running", "done"}]
      /\ state'[x] = "done" /\ \A i \in Items \cup Promises : i # x => state'[i] = state[i]
  BY <1>0 DEF Finalize, TypeOK
<1>3. TypeOK'
  BY <1>0, <1>2, <1>a, <1>c DEF TypeOK, stack, queues
<1>4. ItemsWait' /\ PromisesWait'
  <2>1. \A y \in Promises : pro'[y].deferred = pro[y].deferred
    BY <1>2
  <2>2. \A i \in Items : state'[i] = state[i]
    BY <1>1, <1>c
  <2>3. QED
    BY <1>3, <1>a, <2>1, <2>2, WaitKeeps
<1>5. ItemsRun'
  BY <1>0, <1>1, <1>a, <1>c, RunKeeps
<1>6. PromisesCount'
  <2>1. \A y \in Promises : pro'[y].countdown = pro'[y].deferred + pending[y] + (IF state'[y] = "new" THEN 1 ELSE 0)
    <3>1. pro'[x].countdown = pro'[x].deferred + pending[x] + 0 /\ state'[x] # "new"
      BY <1>1, <1>2, <1>c
    <3>2. QED
      BY <1>0, <1>2, <1>c, <3>1 DEF PromisesCount
  <2>2. QED
    BY <1>0, <1>a, <2>1 DEF PromisesCount, queues
<1>7. QED
  BY <1>3, <1>4, <1>5, <1>6, <1>a, StayStep

LEMMA CountFacts ==
  ASSUME TypeOK, NEW t \in Threads, CountHandle(t)
  PROVE  /\ prog' \in [Threads -> Call] /\ \A u \in Threads : u # t => prog'[u] = prog[u]
         /\ prog'[t].phase = prog[t].phase /\ prog'[t].depth = prog[t].depth
         /\ prog'[t].batch = prog[t].batch /\ prog'[t].at = prog[t].at
<1>1. prog[t] \in Call /\ prog \in [Threads -> Call]
  BY DEF TypeOK
<1>2. CASE prog' = prog
  BY <1>1, <1>2
<1>3. CASE prog' = [prog EXCEPT ![t].exec = @ + 1]
  <2>a. PICK c \in Call, n \in Nat : c = prog[t] /\ n = c.exec + 1
    BY <1>1 DEF Call
  <2>1. PICK d : d = [c EXCEPT !.exec = n]
    OBVIOUS
  <2>2. /\ d \in Call /\ d.phase = prog[t].phase /\ d.depth = prog[t].depth
        /\ d.batch = prog[t].batch /\ d.at = prog[t].at
    BY <2>a, <2>1 DEF Call
  <2>3. prog' = [prog EXCEPT ![t] = d]
    BY <1>3, <2>a, <2>1
  <2>4. QED
    BY <1>1, <2>2, <2>3
<1>4. QED
  BY <1>2, <1>3 DEF CountHandle

\* An lpc joins an inbox.
LEMMA EnqueueStep ==
  ASSUME ProgressInv, NEW t \in Threads, NEW p \in Personas, NEW l \in Levels, NEW i \in Items,
         state[i] = "new", Enqueue(t, p, l, i), CountHandle(t), state' = [state EXCEPT ![i] = "queued"],
         UNCHANGED <<owner, stack, unique, progressing, burstable, promises, frames>>
  PROVE  ProgressInv'
<1>0. TypeOK /\ PromisesCount /\ ItemsRun /\ ItemsWait /\ PromisesWait
  BY InvParts
<1>1. /\ prog' \in [Threads -> Call] /\ \A u \in Threads : u # t => prog'[u] = prog[u]
      /\ prog'[t].phase = prog[t].phase /\ prog'[t].depth = prog[t].depth
      /\ prog'[t].batch = prog[t].batch /\ prog'[t].at = prog[t].at
  BY <1>0, CountFacts
<1>2. \A u \in Threads : prog'[u].batch = prog[u].batch
  BY <1>1
<1>3. /\ state' \in [Items \cup Promises -> {"new", "queued", "running", "done"}]
      /\ state'[i] = "queued" /\ \A j \in Items \cup Promises : j # i => state'[j] = state[j]
  BY <1>0 DEF TypeOK
<1>4. pros' = pros /\ pro' = pro /\ pending' = pending
  BY DEF Enqueue, promises
<1>5. \A x \in Promises : x \notin Items
  BY <1>0, PromiseTypes
<1>6. ItemsRun' /\ PromisesCount'
  <2>1. \A j \in Items : state'[j] = "running" <=> state[j] = "running"
    BY <1>3
  <2>2. \A x \in Promises : state'[x] = "new" <=> state[x] = "new"
    BY <1>3, <1>5
  <2>3. QED
    BY <1>0, <1>4, <2>1, <2>2, RunKeeps, CountKeeps
<1>7. ~ In(Waiting, i)
  BY <1>0 DEF ItemsWait
<1>8. WaitingIs
  BY <1>0, WaitingTyped
<1>9. ASSUME TypeOK', NEW w \in Places, Waiting'[w] = Append(Waiting[w], i), PlacesKeep(w, w)
      PROVE  ProgressInv'
  <2>1. \A x \in Items \cup Promises : (In(Waiting', x) <=> In(Waiting, x) \/ x = i) /\ Once(Waiting', x)
    BY <1>7, <1>9, WaitAppend
  <2>2. ItemsWait'
    BY <1>0, <1>3, <2>1 DEF ItemsWait
  <2>3. PromisesWait'
    BY <1>0, <1>4, <1>5, <2>1 DEF PromisesWait
  <2>4. QED
    BY <1>1, <1>6, <1>9, <2>2, <2>3, StayStep
<1>10. CASE owner[p] = t
  <2>1. self' = [self EXCEPT ![p][l] = Append(@, i)] /\ peer' = peer
    BY <1>10 DEF Enqueue
  <2>2. Append(self[p][l], i) \in Seq(Items)
    <3>1. self[p][l] \in Seq(Items)
      BY <1>0 DEF TypeOK
    <3>2. QED
      BY <3>1, AppendProperties
  <2>3. /\ self' \in [Personas -> [Levels -> Seq(Items)]]
        /\ self'[p][l] = Append(self[p][l], i)
        /\ \A q \in Personas, k \in Levels : q # p \/ k # l => self'[q][k] = self[q][k]
    BY <1>0, <2>1, <2>2 DEF TypeOK
  <2>4. TypeOK'
    BY <1>0, <1>1, <1>3, <1>4, <2>1, <2>3 DEF TypeOK, stack
  <2>5. PICK w \in Places : w = <<"self", p, l>>
    BY <1>8 DEF WaitingIs
  <2>6. Waiting'[w] = Append(Waiting[w], i)
    <3>1. WaitingIs'
      BY <2>4, WaitingTypedNext
    <3>2. Waiting'[w] = self'[p][l] /\ Waiting[w] = self[p][l]
      BY <1>8, <2>5, <3>1 DEF WaitingIs
    <3>3. QED
      BY <2>3, <3>2
  <2>7. PlacesKeep(w, w)
    BY <1>2, <1>4, <2>1, <2>3, <2>5 DEF PlacesKeep
  <2>8. QED
    BY <1>9, <2>4, <2>6, <2>7
<1>11. CASE owner[p] # t
  <2>1. peer' = [peer EXCEPT ![p][l] = Append(@, i)] /\ self' = self
    BY <1>11 DEF Enqueue
  <2>2. Append(peer[p][l], i) \in Seq(Items)
    <3>1. peer[p][l] \in Seq(Items)
      BY <1>0 DEF TypeOK
    <3>2. QED
      BY <3>1, AppendProperties
  <2>3. /\ peer' \in [Personas -> [Levels -> Seq(Items)]]
        /\ peer'[p][l] = Append(peer[p][l], i)
        /\ \A q \in Personas, k \in Levels : q # p \/ k # l => peer'[q][k] = peer[q][k]
    BY <1>0, <2>1, <2>2 DEF TypeOK
  <2>4. TypeOK'
    BY <1>0, <1>1, <1>3, <1>4, <2>1, <2>3 DEF TypeOK, stack
  <2>5. PICK w \in Places : w = <<"peer", p, l>>
    BY <1>8 DEF WaitingIs
  <2>6. Waiting'[w] = Append(Waiting[w], i)
    <3>1. WaitingIs'
      BY <2>4, WaitingTypedNext
    <3>2. Waiting'[w] = peer'[p][l] /\ Waiting[w] = peer[p][l]
      BY <1>8, <2>5, <3>1 DEF WaitingIs
    <3>3. QED
      BY <2>3, <3>2
  <2>7. PlacesKeep(w, w)
    BY <1>2, <1>4, <2>1, <2>3, <2>5 DEF PlacesKeep
  <2>8. QED
    BY <1>9, <2>4, <2>6, <2>7
<1>12. QED
  BY <1>10, <1>11

LEMMA SendStep ==
  ASSUME ProgressInv, NEW t \in Threads, NEW p \in Personas, NEW l \in Levels, NEW i \in Items,
         Send(t, p, l, i)
  PROVE  ProgressInv'
BY EnqueueStep DEF Send

\* The user-level bit of a thread is set only where no user-level callback runs.
LEMMA DuringStep ==
  ASSUME ProgressInv, NEW t \in Threads, NEW p \in Personas, NEW l \in Levels, NEW i \in Items,
         During(t, p, l, i)
  PROVE  ProgressInv'
<1>0. /\ TypeOK /\ ScopesExact /\ StackOK(scopes[t], unique[t], prog[t], frames[t])
      /\ StackTypes(scopes[t], prog[t], frames[t]) /\ top[t] = scopes[t][Len(scopes[t])].persona
      /\ burstable[t] \in BOOLEAN /\ FramesOK(frames[t], prog[t]) /\ top[t] \in Personas
      /\ LevelsOK(progressing[t], burstable[t], prog[t], frames[t]) /\ ItemsRun /\ PromisesCount
      /\ prog[t].phase # "leave"
  BY ThreadFacts, CodeFacts DEF During
<1>a. /\ state[i] = "new" /\ CountHandle(t) /\ UNCHANGED <<owner, unique, progressing, promises>>
  BY DEF During
<1>1. CASE /\ ~ MayRunHere(t, p, l) /\ Enqueue(t, p, l, i)
           /\ state' = [state EXCEPT ![i] = "queued"] /\ UNCHANGED <<stack, burstable, frames>>
  BY <1>1, <1>a, EnqueueStep
<1>2. CASE /\ MayRunHere(t, p, l)
           /\ burstable' = IF l = "user" THEN [burstable EXCEPT ![t] = ~ @] ELSE burstable
           /\ PushRedundant(t, p)
           /\ frames' = [frames EXCEPT ![t] = Append(@,
                [item |-> i, level |-> l, persona |-> p, base |-> Len(scopes[t]) + 1, own |-> TRUE])]
           /\ state' = [state EXCEPT ![i] = "running"]
           /\ UNCHANGED queues
  <2>a. owner[p] = t /\ (l = "user" => burstable[t])
    BY <1>2 DEF MayRunHere
  <2>1. /\ prog' \in [Threads -> Call] /\ \A u \in Threads : u # t => prog'[u] = prog[u]
        /\ prog'[t].phase = prog[t].phase /\ prog'[t].depth = prog[t].depth
        /\ prog'[t].batch = prog[t].batch /\ prog'[t].at = prog[t].at
    BY <1>0, <1>a, CountFacts
  <2>b. PICK B \in BOOLEAN : B <=> l = "user"
    OBVIOUS
  <2>2. /\ burstable' \in [Threads -> BOOLEAN]
        /\ burstable'[t] <=> IF B THEN ~ burstable[t] ELSE burstable[t]
        /\ \A u \in Threads : u # t => burstable'[u] = burstable[u]
    <3>1. burstable' = IF B THEN [burstable EXCEPT ![t] = ~ @] ELSE burstable
      BY <1>2, <2>b
    <3>2. QED
      BY <1>0, <3>1, FlipBit
  <2>c. PICK s : s = [persona |-> p, kind |-> "redundant", saved |-> top[t]]
    OBVIOUS
  <2>d. /\ s \in Scope /\ s.persona = p /\ s.kind = "redundant"
        /\ s.saved = scopes[t][Len(scopes[t])].persona
    BY <1>0, <2>c DEF Scope
  <2>3. /\ ScopesExact' /\ ScopeTypes' /\ \A u \in Threads : u # t => scopes'[u] = scopes[u]
        /\ Pushed(scopes[t], scopes'[t], Len(scopes[t]), s)
    <3>1. scopes' = [scopes EXCEPT ![t] = Append(@, s)] /\ top' = [top EXCEPT ![t] = s.persona]
      BY <1>2, <2>c, <2>d DEF PushRedundant
    <3>2. QED
      BY <1>0, <1>a, <2>a, <2>d, <3>1, ScopesPush
  <2>e. PICK f : f = [item |-> i, level |-> l, persona |-> p, base |-> Len(scopes[t]) + 1, own |-> TRUE]
    OBVIOUS
  <2>f. /\ f \in Frame /\ f.own /\ f.level = l /\ f.base = Len(scopes[t]) + 1 /\ f.persona = p /\ f.item = i
    BY <1>0, <2>e DEF Frame, StackTypes
  <2>4. /\ frames' \in [Threads -> Seq(Frame)] /\ Pushed(frames[t], frames'[t], Len(frames[t]), f)
        /\ \A u \in Threads : u # t => frames'[u] = frames[u]
    <3>1. frames[t] \in Seq(Frame) /\ frames' = [frames EXCEPT ![t] = Append(@, f)]
      BY <1>0, <1>2, <2>e DEF TypeOK
    <3>2. Pushed(frames[t], Append(frames[t], f), Len(frames[t]), f) /\ Append(frames[t], f) \in Seq(Frame)
      BY <2>f, <3>1, PushSeq
    <3>3. QED
      BY <1>0, <3>1, <3>2 DEF TypeOK
  <2>5. LevelsOK(progressing[t], burstable'[t], prog'[t], frames'[t])
    <3>1. burstable'[t] <=> IF f.level = "user" THEN ~ burstable[t] ELSE burstable[t]
      BY <2>2, <2>b, <2>f
    <3>2. LevelsOK(progressing[t], burstable'[t], prog[t], frames'[t])
      BY <1>0, <2>4, <2>a, <2>f, <3>1, LevelsDuring
    <3>3. QED
      BY <2>1, <3>2, LevelsSame
  <2>6. StackOK(scopes'[t], unique[t], prog'[t], frames'[t])
    <3>1. StackOK(scopes'[t], unique[t], prog[t], frames'[t])
      <4>1. OwnOn(scopes[t], scopes'[t], Len(scopes[t]), s, frames[t], frames'[t], Len(frames[t]), f)
        BY <2>3, <2>4, <2>f DEF OwnOn
      <4>2. s.saved = scopes[t][Len(scopes[t])].persona /\ s.kind = "redundant" /\ f.persona = s.persona
        BY <2>d, <2>f
      <4>3. QED
        BY <1>0, <4>1, <4>2, StackDuring
    <3>2. Visiting(prog'[t]) => Visiting(prog[t])
      BY <2>1 DEF Visiting
    <3>3. QED
      BY <2>1, <3>1, <3>2, StackCall
  <2>7. /\ state' \in [Items \cup Promises -> {"new", "queued", "running", "done"}]
        /\ state'[i] = "running" /\ \A j \in Items \cup Promises : j # i => state'[j] = state[j]
    BY <1>0, <1>2 DEF TypeOK
  <2>8. TypeOK'
    BY <1>0, <1>2, <1>a, <2>1, <2>2, <2>3, <2>4, <2>7 DEF TypeOK, ScopeTypes, queues, promises
  <2>9. ItemsWait' /\ PromisesWait'
    <3>1. \A u \in Threads : prog'[u].batch = prog[u].batch
      BY <2>1
    <3>2. (\A j \in Items : state'[j] = "queued" <=> state[j] = "queued") /\ pro' = pro
      BY <1>a, <2>7 DEF promises
    <3>3. QED
      BY <1>2, <2>8, <3>1, <3>2, WaitKeeps
  <2>10. ItemsRun'
    <3>1. f.item \in Items /\ state[f.item] # "running"
      BY <1>a, <2>f
    <3>2. \A j \in Items : state'[j] = "running" <=> state[j] = "running" \/ j = f.item
      BY <2>7, <2>f
    <3>3. QED
      BY <1>0, <2>4, <3>1, <3>2, RunPush
  <2>11. PromisesCount'
    <3>1. \A x \in Promises : x \notin Items
      BY <1>0, PromiseTypes
    <3>2. \A x \in Promises : state'[x] = "new" <=> state[x] = "new"
      BY <2>7, <3>1
    <3>3. pros' = pros /\ pro' = pro /\ pending' = pending
      BY <1>2, <1>a DEF queues, promises
    <3>4. QED
      BY <1>0, <3>2, <3>3, CountKeeps
  <2>12. Elsewhere(t) /\ ThreadOK(t)'
    BY <1>a, <2>1, <2>2, <2>3, <2>4, <2>5, <2>6 DEF Elsewhere, ThreadOK
  <2>13. QED
    BY <2>3, <2>8, <2>9, <2>10, <2>11, <2>12, StepParts
<1>3. QED
  BY <1>1, <1>2 DEF During

LEMMA CompleteOpStep ==
  ASSUME ProgressInv, NEW t \in Threads, NEW x \in Promises, CompleteOp(t, x)
  PROVE  ProgressInv'
<1>0. TypeOK /\ PromisesCount /\ ItemsRun /\ ItemsWait /\ PromisesWait
  BY InvParts
<1>a. /\ UNCHANGED <<owner, stack, unique, progressing, burstable, peer, self, frames, state>>
      /\ CountHandle(t) /\ pending[x] > 0
      /\ pro' = [pro EXCEPT ![x].deferred = @ + 1] /\ pending' = [pending EXCEPT ![x] = @ - 1]
      /\ pros' = IF pro[x].deferred = 0 THEN [pros EXCEPT ![Home[x]] = Append(@, x)] ELSE pros
  BY DEF CompleteOp, MustEnqueue
<1>1. /\ pro[x].countdown \in Nat /\ pro[x].deferred \in Nat /\ pending[x] \in Nat /\ x \notin Items
      /\ pro[x] \in [countdown : Nat, deferred : Nat] /\ Home[x] \in Personas
  BY <1>0, PromiseTypes
<1>2. /\ prog' \in [Threads -> Call] /\ \A u \in Threads : u # t => prog'[u] = prog[u]
      /\ prog'[t].phase = prog[t].phase /\ prog'[t].depth = prog[t].depth
      /\ prog'[t].batch = prog[t].batch /\ prog'[t].at = prog[t].at
  BY <1>0, <1>a, CountFacts
<1>b. pro[x].deferred + 1 \in Nat /\ pending[x] - 1 \in Nat
  BY <1>1, <1>a
<1>3. /\ pro' \in [Promises -> [countdown : Nat, deferred : Nat]]
      /\ pro'[x].countdown = pro[x].countdown /\ pro'[x].deferred = pro[x].deferred + 1
      /\ \A y \in Promises : y # x => pro'[y] = pro[y]
  BY <1>0, <1>1, <1>a, <1>b DEF TypeOK
<1>4. /\ pending' \in [Promises -> Nat] /\ pending'[x] = pending[x] - 1
      /\ \A y \in Promises : y # x => pending'[y] = pending[y]
  BY <1>0, <1>a, <1>b DEF TypeOK
<1>5. ItemsRun'
  BY <1>0, <1>a, RunKeeps
<1>6. \A y \in Promises : pro'[y].countdown = pro'[y].deferred + pending'[y] + (IF state'[y] = "new" THEN 1 ELSE 0)
  <2>1. pro'[x].countdown = pro'[x].deferred + pending'[x] + (IF state[x] = "new" THEN 1 ELSE 0)
    <3>1. pro[x].countdown = pro[x].deferred + pending[x] + (IF state[x] = "new" THEN 1 ELSE 0)
      BY <1>0 DEF PromisesCount
    <3>2. QED
      BY <1>1, <1>3, <1>4, <3>1
  <2>2. QED
    BY <1>0, <1>3, <1>4, <1>a, <2>1 DEF PromisesCount
<1>7. CASE pro[x].deferred # 0
  <2>1. UNCHANGED queues
    BY <1>7, <1>a DEF queues
  <2>2. TypeOK'
    BY <1>0, <1>2, <1>3, <1>4, <1>a, <2>1 DEF TypeOK, stack, queues
  <2>3. ItemsWait' /\ PromisesWait'
    <3>1. \A u \in Threads : prog'[u].batch = prog[u].batch
      BY <1>2
    <3>2. pro[x].deferred > 0 /\ pro'[x].deferred > 0
      BY <1>1, <1>3, <1>7
    <3>3. \A y \in Promises : pro'[y].deferred > 0 <=> pro[y].deferred > 0
      BY <1>3, <3>2
    <3>4. QED
      BY <1>a, <2>1, <2>2, <3>1, <3>3, WaitKeeps
  <2>4. PromisesCount'
    BY <1>0, <1>6, <2>1 DEF PromisesCount, queues
  <2>5. QED
    BY <1>2, <1>5, <1>a, <2>2, <2>3, <2>4, StayStep
<1>8. CASE pro[x].deferred = 0
  <2>1. Append(pros[Home[x]], x) \in Seq(Promises) /\ pros[Home[x]] \in Seq(Promises)
    <3>1. pros[Home[x]] \in Seq(Promises)
      BY <1>0, <1>1 DEF TypeOK
    <3>2. QED
      BY <3>1, AppendProperties
  <2>2. /\ pros' \in [Personas -> Seq(Promises)] /\ pros'[Home[x]] = Append(pros[Home[x]], x)
        /\ \A q \in Personas : q # Home[x] => pros'[q] = pros[q]
    BY <1>0, <1>1, <1>8, <1>a, <2>1 DEF TypeOK
  <2>3. TypeOK'
    BY <1>0, <1>2, <1>3, <1>4, <1>a, <2>2 DEF TypeOK, stack
  <2>4. WaitingIs /\ WaitingIs'
    BY <1>0, <2>3, WaitingTyped, WaitingTypedNext
  <2>5. PICK w \in Places : w = <<"pros", Home[x], "user">>
    BY <1>1, <2>4 DEF WaitingIs
  <2>6. Waiting'[w] = Append(Waiting[w], x)
    BY <1>1, <2>2, <2>4, <2>5 DEF WaitingIs
  <2>7. PlacesKeep(w, w)
    BY <1>2, <1>a, <2>2, <2>5 DEF PlacesKeep
  <2>8. ~ In(Waiting, x)
    BY <1>0, <1>8 DEF PromisesWait
  <2>9. \A y \in Items \cup Promises : (In(Waiting', y) <=> In(Waiting, y) \/ y = x) /\ Once(Waiting', y)
    BY <2>3, <2>6, <2>7, <2>8, WaitAppend
  <2>10. ItemsWait'
    BY <1>0, <1>1, <1>a, <2>9 DEF ItemsWait
  <2>11. PromisesWait'
    <3>1. pro'[x].deferred > 0
      BY <1>1, <1>3
    <3>2. QED
      BY <1>0, <1>3, <2>9, <3>1 DEF PromisesWait
  <2>12. \A y \in Promises, q \in Personas : y \in SeqSet(pros'[q]) => q = Home[y]
    <3>1. SUFFICES ASSUME NEW y \in Promises, NEW q \in Personas, y \in SeqSet(pros'[q])
                   PROVE  q = Home[y]
      OBVIOUS
    <3>2. y \in SeqSet(pros[q]) => q = Home[y]
      BY <1>0 DEF PromisesCount
    <3>3. CASE q # Home[x]
      BY <2>2, <3>1, <3>2, <3>3
    <3>4. CASE q = Home[x]
      <4>1. PICK k \in DOMAIN pros'[q] : pros'[q][k] = y
        BY <3>1 DEF SeqSet
      <4>2. y = x \/ (k \in DOMAIN pros[q] /\ pros[q][k] = y)
        <5>1. PICK s \in Seq(Promises) : s = pros[q] /\ pros'[q] = Append(s, x)
          BY <2>1, <2>2, <3>4
        <5>2. /\ Len(s) \in Nat /\ DOMAIN s = 1 .. Len(s) /\ DOMAIN Append(s, x) = 1 .. Len(s) + 1
              /\ \A n \in 1 .. Len(s) : Append(s, x)[n] = s[n]
              /\ Append(s, x)[Len(s) + 1] = x
          BY AppendFacts
        <5>3. QED
          BY <4>1, <5>1, <5>2
      <4>3. QED
        BY <3>2, <3>4, <4>2 DEF SeqSet
    <3>5. QED
      BY <3>3, <3>4
  <2>13. PromisesCount'
    BY <1>6, <2>12 DEF PromisesCount
  <2>14. QED
    BY <1>2, <1>5, <1>a, <2>3, <2>10, <2>11, <2>13, StayStep
<1>9. QED
  BY <1>7, <1>8

LEMMA ReturnStep ==
  ASSUME ProgressInv, NEW t \in Threads, Return(t)
  PROVE  ProgressInv'
<1>0. /\ TypeOK /\ ScopesExact /\ StackOK(scopes[t], unique[t], prog[t], frames[t])
      /\ StackTypes(scopes[t], prog[t], frames[t])
      /\ burstable[t] \in BOOLEAN /\ FramesOK(frames[t], prog[t])
      /\ LevelsOK(progressing[t], burstable[t], prog[t], frames[t]) /\ ItemsRun /\ PromisesCount
  BY ThreadFacts
<1>a. /\ UNCHANGED <<owner, unique, progressing, queues, promises, prog>>
      /\ frames[t] # <<>> /\ (Len(frames[t]) > prog[t].depth \/ prog[t].phase = "idle")
      /\ frames' = [frames EXCEPT ![t] = SubSeq(@, 1, Len(@) - 1)]
  BY DEF Return, InFrame, Phase
<1>1. PICK f, N : /\ f = frames[t][Len(frames[t])] /\ N = Len(frames[t]) - 1
                  /\ f = Inner(t)
  BY DEF Inner
<1>2. /\ Pushed(frames'[t], frames[t], N, f) /\ frames' \in [Threads -> Seq(Frame)]
      /\ \A u \in Threads : u # t => frames'[u] = frames[u]
  <2>1. frames[t] \in Seq(Frame) /\ Len(frames[t]) >= 1
    <3>1. frames[t] \in Seq(Frame) /\ Len(frames[t]) \in Nat /\ Len(frames[t]) # 0
      BY <1>0, <1>a, EmptySeq DEF TypeOK, StackTypes
    <3>2. QED
      BY <3>1
  <2>2. /\ Pushed(SubSeq(frames[t], 1, Len(frames[t]) - 1), frames[t], Len(frames[t]) - 1, frames[t][Len(frames[t])])
        /\ SubSeq(frames[t], 1, Len(frames[t]) - 1) \in Seq(Frame)
    BY <2>1, PopSeq
  <2>3. frames'[t] = SubSeq(frames[t], 1, Len(frames[t]) - 1)
    BY <1>0, <1>a DEF TypeOK
  <2>4. QED
    BY <1>0, <1>1, <1>a, <2>2, <2>3 DEF TypeOK
<1>3. /\ N \in Nat /\ N + 1 \in DOMAIN frames[t] /\ f = frames[t][N + 1] /\ f \in Frame /\ N >= prog[t].depth
  <2>1. N \in Nat /\ N + 1 \in DOMAIN frames[t] /\ f = frames[t][N + 1] /\ Len(frames[t]) = N + 1
    BY <1>2 DEF Pushed
  <2>2. f \in Frame
    BY <1>0, <2>1, ThreadTypes
  <2>3. N >= prog[t].depth
    BY <1>0, <1>a, <2>1 DEF LevelsOK, StackTypes
  <2>4. QED
    BY <2>1, <2>2, <2>3
<1>4. /\ f.item \in Items \cup Promises /\ f.own \in BOOLEAN /\ f.level \in Levels
      /\ Len(scopes[t]) = f.base /\ Len(scopes[t]) \in Nat /\ Len(scopes[t]) >= 2
      /\ scopes[t][Len(scopes[t])].kind # "unique"
  <2>1. f.item \in Items \cup Promises /\ f.own \in BOOLEAN /\ f.level \in Levels /\ Len(scopes[t]) = f.base
    BY <1>1, <1>3 DEF Frame, Return
  <2>2. 2 <= f.base /\ scopes[t][f.base].kind = "redundant"
    BY <1>0, <1>3 DEF StackOK, FramesNest
  <2>3. QED
    BY <1>0, <2>1, <2>2 DEF StackTypes
<1>5. /\ state' \in [Items \cup Promises -> {"new", "queued", "running", "done"}]
      /\ f.item \in Items => state'[f.item] = "done"
      /\ \A i \in Items \cup Promises : i # f.item \/ i \notin Items => state'[i] = state[i]
  <2>1. state' = IF f.item \in Items THEN [state EXCEPT ![f.item] = "done"] ELSE state
    BY <1>1 DEF Return
  <2>2. QED
    BY <1>0, <1>4, <2>1 DEF TypeOK
<1>6. f.item \in Items => state[f.item] = "running"
  BY <1>0, <1>3 DEF ItemsRun, Runs
<1>7. ItemsRun'
  <2>1. \A i \in Items : state'[i] = "running" <=> state[i] = "running" /\ i # f.item
    BY <1>5
  <2>2. QED
    BY <1>0, <1>2, <2>1, RunPop
<1>8. PromisesCount'
  <2>1. \A x \in Promises : state'[x] = "new" <=> state[x] = "new"
    BY <1>0, <1>5, PromiseTypes
  <2>2. pros' = pros /\ pro' = pro /\ pending' = pending
    BY <1>a DEF queues, promises
  <2>3. QED
    BY <1>0, <2>1, <2>2, CountKeeps
<1>9. ASSUME TypeOK'
      PROVE  ItemsWait' /\ PromisesWait'
  <2>1. \A i \in Items : state'[i] = "queued" <=> state[i] = "queued"
    BY <1>5, <1>6
  <2>2. pro' = pro /\ prog' = prog
    BY <1>a DEF promises
  <2>3. QED
    BY <1>9, <1>a, <2>1, <2>2, WaitKeeps
<1>10. CASE f.own
  <2>a. PopRedundant(t)
    BY <1>1, <1>10 DEF Return
  <2>b. PICK B \in BOOLEAN : B <=> f.level = "user"
    OBVIOUS
  <2>1. /\ burstable' \in [Threads -> BOOLEAN]
        /\ burstable'[t] <=> IF B THEN ~ burstable[t] ELSE burstable[t]
        /\ \A u \in Threads : u # t => burstable'[u] = burstable[u]
    <3>1. burstable' = IF B THEN [burstable EXCEPT ![t] = ~ @] ELSE burstable
      BY <1>1, <1>10, <2>b DEF Return
    <3>2. QED
      BY <1>0, <3>1, FlipBit
  <2>2. /\ ScopesExact' /\ ScopeTypes' /\ \A u \in Threads : u # t => scopes'[u] = scopes[u]
        /\ Pushed(scopes'[t], scopes[t], Len(scopes[t]) - 1, scopes[t][Len(scopes[t])])
    <3>1. scopes[t][Len(scopes[t])].saved = scopes[t][Len(scopes[t]) - 1].persona
      BY <1>0, <1>4, SMTT(60) DEF StackOK, ScopesNest, StackTypes
    <3>2. /\ scopes' = [scopes EXCEPT ![t] = SubSeq(@, 1, Len(@) - 1)]
          /\ top' = [top EXCEPT ![t] = scopes[t][Len(scopes[t]) - 1].persona]
      BY <2>a, <3>1 DEF PopRedundant
    <3>3. QED
      BY <1>0, <1>4, <1>a, <3>2, ScopesPop
  <2>3. LevelsOK(progressing[t], burstable'[t], prog[t], frames'[t])
    <3>1. burstable'[t] <=> IF f.own /\ f.level = "user" THEN ~ burstable[t] ELSE burstable[t]
      BY <1>10, <2>1, <2>b
    <3>2. QED
      BY <1>0, <1>2, <1>3, <3>1, LevelsReturn
  <2>4. StackOK(scopes'[t], unique[t], prog[t], frames'[t])
    <3>1. PICK L, s : L = Len(scopes[t]) - 1 /\ s = scopes[t][Len(scopes[t])]
      OBVIOUS
    <3>2. OwnOn(scopes'[t], scopes[t], L, s, frames'[t], frames[t], N, f)
      BY <1>2, <1>4, <1>10, <2>2, <3>1 DEF OwnOn
    <3>3. QED
      BY <1>0, <1>3, <3>2, StackReturnOwn
  <2>5. TypeOK'
    BY <1>0, <1>2, <1>5, <1>a, <2>1, <2>2 DEF TypeOK, ScopeTypes, queues, promises
  <2>6. Elsewhere(t) /\ ThreadOK(t)'
    BY <1>2, <1>a, <2>1, <2>2, <2>3, <2>4 DEF Elsewhere, ThreadOK
  <2>7. QED
    BY <1>7, <1>8, <1>9, <2>2, <2>5, <2>6, StepParts
<1>11. CASE ~ f.own
  <2>1. UNCHANGED <<stack, burstable>>
    BY <1>1, <1>11 DEF Return
  <2>2. LevelsOK(progressing[t], burstable[t], prog[t], frames'[t])
    <3>1. burstable[t] <=> IF f.own /\ f.level = "user" THEN ~ burstable[t] ELSE burstable[t]
      BY <1>11
    <3>2. QED
      BY <1>0, <1>2, <1>3, <3>1, LevelsReturn
  <2>3. N = prog[t].depth
    <3>1. N + 1 = prog[t].depth + 1
      BY <1>0, <1>3, <1>11 DEF LevelsOK
    <3>2. QED
      BY <1>0, <1>3, <3>1 DEF StackTypes
  <2>4. StackOK(scopes[t], unique[t], prog[t], frames'[t])
    BY <1>0, <1>2, <1>4, <1>11, <2>3, StackReturn
  <2>5. TypeOK'
    BY <1>0, <1>2, <1>5, <1>a, <2>1 DEF TypeOK, stack, queues, promises
  <2>6. ScopesExact'
    BY <1>0, <1>a, <2>1 DEF ScopesExact, stack
  <2>7. Elsewhere(t) /\ ThreadOK(t)'
    BY <1>2, <1>a, <2>1, <2>2, <2>4 DEF Elsewhere, ThreadOK, stack
  <2>8. QED
    BY <1>7, <1>8, <1>9, <2>5, <2>6, <2>7, StepParts
<1>12. QED
  BY <1>10, <1>11

LEMMA RunNextStep ==
  ASSUME ProgressInv, NEW t \in Threads, RunNext(t)
  PROVE  ProgressInv'
<1>0. /\ TypeOK /\ ScopesExact /\ StackOK(scopes[t], unique[t], prog[t], frames[t])
      /\ StackTypes(scopes[t], prog[t], frames[t]) /\ prog[t] \in Call
      /\ burstable[t] \in BOOLEAN /\ FramesOK(frames[t], prog[t])
      /\ LevelsOK(progressing[t], burstable[t], prog[t], frames[t]) /\ ItemsRun /\ PromisesCount
      /\ ItemsWait /\ PromisesWait
  BY ThreadFacts, InvParts
<1>a. /\ UNCHANGED <<owner, stack, unique, progressing, burstable, queues, pending>>
      /\ prog[t].batch # <<>> /\ Len(frames[t]) = prog[t].depth
  BY <1>0 DEF RunNext, InFrame, StackTypes
<1>b. Visiting(prog[t]) /\ prog[t].at \in DOMAIN unique[t] /\ unique[t][prog[t].at] \in Personas
  <2>1. Visiting(prog[t])
    BY <1>0, <1>a DEF LevelsOK, Visiting
  <2>2. prog[t].at \in DOMAIN unique[t]
    BY <1>0, <2>1 DEF StackOK, VisitNests
  <2>3. QED
    BY <1>0, <2>1, <2>2, ThreadTypes
<1>c. PICK h : h = Head(prog[t].batch)
  OBVIOUS
<1>d. prog[t].batch \in Seq(Items \cup Promises)
  BY <1>0 DEF Call
<1>e. h \in Items \cup Promises /\ Tail(prog[t].batch) \in Seq(Items \cup Promises)
  BY <1>a, <1>c, <1>d, TailFacts
<1>1. /\ prog' \in [Threads -> Call] /\ \A u \in Threads : u # t => prog'[u] = prog[u]
      /\ prog'[t].phase = prog[t].phase /\ prog'[t].depth = prog[t].depth
      /\ prog'[t].batch = Tail(prog[t].batch) /\ prog'[t].at = prog[t].at
  <2>1. PICK c \in Call, b \in Seq(Items \cup Promises), m \in Nat, n \in Nat :
          /\ c = prog[t] /\ b = Tail(c.batch) /\ m = c.exec + 1
          /\ n = (IF c.left > 0 THEN c.left - 1 ELSE 0)
    <3>1. prog[t].exec + 1 \in Nat /\ (IF prog[t].left > 0 THEN prog[t].left - 1 ELSE 0) \in Nat
      BY <1>0 DEF Call
    <3>2. QED
      BY <1>0, <1>e, <3>1
  <2>2. PICK d : d = [c EXCEPT !.batch = b, !.exec = m, !.left = n]
    OBVIOUS
  <2>3. /\ d \in Call /\ d.phase = c.phase /\ d.depth = c.depth /\ d.batch = b /\ d.at = c.at
    BY <2>1, <2>2 DEF Call
  <2>4. prog' = [prog EXCEPT ![t] = d]
    <3>1. prog' = [prog EXCEPT ![t].batch = Tail(@), ![t].exec = @ + 1, ![t].left = IF @ > 0 THEN @ - 1 ELSE 0]
      BY DEF RunNext
    <3>2. QED
      BY <1>0, <2>1, <2>2, <3>1 DEF TypeOK, Call
  <2>5. QED
    BY <1>0, <2>1, <2>3, <2>4, CallMoves
<1>2. PICK f : f = [item |-> h, level |-> IF Phase(t) \in UserPhases THEN "user" ELSE "internal",
                    persona |-> Visited(t), base |-> Len(scopes[t]), own |-> FALSE]
  OBVIOUS
<1>3. /\ f \in Frame /\ ~ f.own /\ (f.level = "user" <=> prog[t].phase \in UserPhases)
      /\ f.base = Len(scopes[t]) /\ f.persona = unique[t][prog[t].at] /\ f.item = h
  BY <1>0, <1>2, <1>b, <1>e DEF Frame, StackTypes, Levels, Phase, Visited
<1>4. /\ frames' \in [Threads -> Seq(Frame)] /\ Pushed(frames[t], frames'[t], Len(frames[t]), f)
      /\ \A u \in Threads : u # t => frames'[u] = frames[u]
  <2>1. frames[t] \in Seq(Frame) /\ frames' = [frames EXCEPT ![t] = Append(@, f)]
    BY <1>0, <1>2, <1>c DEF TypeOK, RunNext
  <2>2. Pushed(frames[t], Append(frames[t], f), Len(frames[t]), f) /\ Append(frames[t], f) \in Seq(Frame)
    BY <1>3, <2>1, PushSeq
  <2>3. QED
    BY <1>0, <2>1, <2>2 DEF TypeOK
<1>5. LevelsOK(progressing[t], burstable[t], prog'[t], frames'[t])
  BY <1>0, <1>1, <1>3, <1>4, <1>a, LevelsRun
<1>6. StackOK(scopes[t], unique[t], prog'[t], frames'[t])
  BY <1>0, <1>1, <1>3, <1>4, <1>a, <1>b, StackRun
<1>7. /\ state' \in [Items \cup Promises -> {"new", "queued", "running", "done"}]
      /\ h \in Items => state'[h] = "running"
      /\ \A i \in Items \cup Promises : i # h \/ i \notin Items => state'[i] = state[i]
  <2>1. state' = IF h \in Items THEN [state EXCEPT ![h] = "running"] ELSE state
    BY <1>c DEF RunNext
  <2>2. QED
    BY <1>0, <1>e, <2>1 DEF TypeOK
<1>8. /\ pro' \in [Promises -> [countdown : Nat, deferred : Nat]]
      /\ h \in Promises => pro'[h].deferred = 0 /\ pro'[h].countdown = pro[h].countdown - pro[h].deferred
      /\ \A y \in Promises : y # h => pro'[y] = pro[y]
  <2>1. CASE h \in Promises
    <3>1. PICK r : r = [countdown |-> pro[h].countdown - pro[h].deferred, deferred |-> 0]
      OBVIOUS
    <3>2. pro[h].countdown - pro[h].deferred \in Nat
      <4>1. /\ pro[h].countdown \in Nat /\ pro[h].deferred \in Nat /\ pending[h] \in Nat
            /\ pro[h].countdown = pro[h].deferred + pending[h] + (IF state[h] = "new" THEN 1 ELSE 0)
        BY <1>0, <2>1, PromiseTypes DEF PromisesCount
      <4>2. QED
        BY <4>1
    <3>3. /\ r \in [countdown : Nat, deferred : Nat] /\ r.deferred = 0
          /\ r.countdown = pro[h].countdown - pro[h].deferred
      BY <3>1, <3>2
    <3>4. pro' = [pro EXCEPT ![h] = r]
      BY <1>c, <2>1, <3>1 DEF RunNext
    <3>5. QED
      BY <1>0, <2>1, <3>3, <3>4 DEF TypeOK
  <2>2. CASE h \notin Promises
    BY <1>0, <1>c, <2>2 DEF RunNext, TypeOK
  <2>3. QED
    BY <2>1, <2>2
<1>9. TypeOK'
  BY <1>0, <1>1, <1>4, <1>7, <1>8, <1>a DEF TypeOK, stack, queues
<1>10. /\ In(Waiting, h)
       /\ \A x \in Items \cup Promises : (In(Waiting', x) <=> In(Waiting, x) /\ x # h) /\ Once(Waiting', x)
  <2>1. WaitingIs /\ WaitingIs'
    BY <1>0, <1>9, WaitingTyped, WaitingTypedNext
  <2>2. PICK b \in Places : b = <<"burst", t, "user">>
    BY <2>1 DEF WaitingIs
  <2>3. Waiting[b] = prog[t].batch /\ Waiting'[b] = prog'[t].batch
    BY <2>1, <2>2 DEF WaitingIs
  <2>4. PlacesKeep(b, b)
    BY <1>1, <1>a, <2>2 DEF PlacesKeep, queues
  <2>5. Waiting[b] # <<>> /\ Waiting'[b] = Tail(Waiting[b]) /\ h = Head(Waiting[b])
    BY <1>1, <1>a, <1>c, <2>3
  <2>6. QED
    BY <1>9, <2>4, <2>5, WaitTake
<1>11. \A x \in Promises : x \notin Items
  BY <1>0, PromiseTypes
<1>12. h \in Items => state[h] = "queued"
  BY <1>0, <1>10 DEF ItemsWait
<1>13. ItemsWait'
  <2>1. \A i \in Items : state'[i] = "queued" <=> state[i] = "queued" /\ i # h
    BY <1>7
  <2>2. QED
    BY <1>0, <1>10, <2>1 DEF ItemsWait
<1>14. PromisesWait'
  <2>1. \A x \in Promises : pro'[x].deferred > 0 <=> pro[x].deferred > 0 /\ x # h
    BY <1>8
  <2>2. QED
    BY <1>0, <1>10, <2>1 DEF PromisesWait
<1>15. ItemsRun'
  <2>1. f.item \in Items => state[f.item] # "running"
    BY <1>3, <1>12
  <2>2. \A i \in Items : state'[i] = "running" <=> state[i] = "running" \/ i = f.item
    BY <1>3, <1>7
  <2>3. QED
    BY <1>0, <1>4, <2>1, <2>2, RunPush
<1>16. PromisesCount'
  <2>1. \A x \in Promises : state'[x] = state[x]
    BY <1>7, <1>11
  <2>2. \A x \in Promises : pro'[x].countdown = pro'[x].deferred + pending[x] + (IF state[x] = "new" THEN 1 ELSE 0)
    <3>1. SUFFICES ASSUME NEW x \in Promises
                   PROVE  pro'[x].countdown = pro'[x].deferred + pending[x] + (IF state[x] = "new" THEN 1 ELSE 0)
      OBVIOUS
    <3>2. /\ pro[x].countdown \in Nat /\ pro[x].deferred \in Nat /\ pending[x] \in Nat
          /\ pro[x].countdown = pro[x].deferred + pending[x] + (IF state[x] = "new" THEN 1 ELSE 0)
      BY <1>0, PromiseTypes DEF PromisesCount
    <3>3. QED
      BY <1>8, <3>2
  <2>3. QED
    BY <1>0, <1>a, <2>1, <2>2 DEF PromisesCount, queues
<1>17. ScopesExact'
  BY <1>0, <1>a DEF ScopesExact, stack
<1>18. Elsewhere(t) /\ ThreadOK(t)'
  BY <1>1, <1>4, <1>5, <1>6, <1>a DEF Elsewhere, ThreadOK, stack
<1>19. QED
  BY <1>9, <1>13, <1>14, <1>15, <1>16, <1>17, <1>18, StepParts

-----------------------------------------------------------------------------
(* Bursts                                                                  *)

\* A burst keeps the types of what it detaches and of what it leaves.
LEMMA DetachedFacts ==
  ASSUME NEW S, NEW q \in [Personas -> [Levels -> Seq(S)]], NEW p \in Personas, NEW l \in Levels,
         NEW n \in Nat
  PROVE  /\ Detached(q, p, l, n) \in [Personas -> [Levels -> Seq(S)]]
         /\ Detached(q, p, l, n)[p][l] = SubSeq(q[p][l], n + 1, Len(q[p][l]))
         /\ \A r \in Personas, k \in Levels : r # p \/ k # l => Detached(q, p, l, n)[r][k] = q[r][k]
         /\ Taken(q[p][l], n) \in Seq(S)
<1>1. PICK s \in Seq(S) : s = q[p][l]
  OBVIOUS
<1>2. PICK L \in Nat : L = Len(s)
  BY LenProperties
<1>3. SubSeq(s, n + 1, L) \in Seq(S)
  <2>1. PICK a \in Nat \ {0} : a = n + 1
    OBVIOUS
  <2>2. L \in 0 .. Len(s)
    BY <1>2
  <2>3. SubSeq(s, a, L) \in Seq(S)
    BY <2>2, SubSeqFacts
  <2>4. QED
    BY <2>1, <2>3
<1>4. PICK r \in Seq(S) : r = SubSeq(s, n + 1, L)
  BY <1>3
<1>5. Detached(q, p, l, n) = [q EXCEPT ![p][l] = r]
  BY <1>1, <1>2, <1>4 DEF Detached
<1>6. Taken(s, n) \in Seq(S)
  <2>1. PICK c \in 0 .. Len(s) : c = (IF Len(s) < n THEN Len(s) ELSE n)
    BY <1>2
  <2>2. 1 \in Nat \ {0}
    OBVIOUS
  <2>3. SubSeq(s, 1, c) \in Seq(S)
    BY <2>1, <2>2, SubSeqFacts
  <2>4. QED
    BY <2>1, <2>3 DEF Taken
<1>7. QED
  BY <1>1, <1>2, <1>4, <1>5, <1>6

LEMMA BatchTypes ==
  ASSUME NEW s, s \in Seq(Items) \/ s \in Seq(Promises)
  PROVE  s \in Seq(Items \cup Promises)
<1>1. Items \subseteq Items \cup Promises /\ Promises \subseteq Items \cup Promises
  OBVIOUS
<1>2. CASE s \in Seq(Items)
  BY <1>1, <1>2, SeqMonotonic
<1>3. CASE s \in Seq(Promises)
  BY <1>1, <1>3, SeqMonotonic
<1>4. QED
  BY <1>2, <1>3

WaitsKept == \A x \in Items \cup Promises : (In(Waiting', x) <=> In(Waiting, x)) /\ Once(Waiting', x)

LEMMA DetachPeer ==
  ASSUME ProgressInv, TypeOK', NEW t \in Threads, NEW p \in Personas, NEW l \in Levels, NEW n \in Nat,
         prog[t].batch = <<>>, prog'[t].batch = Taken(peer[p][l], n), peer' = Detached(peer, p, l, n),
         UNCHANGED <<self, pros>>, \A u \in Threads : u # t => prog'[u] = prog[u]
  PROVE  WaitsKept
<1>0. TypeOK
  BY DEF ProgressInv
<1>1. WaitingIs /\ WaitingIs'
  BY <1>0, WaitingTyped, WaitingTypedNext
<1>2. PICK w \in Places, b \in Places : w = <<"peer", p, l>> /\ b = <<"burst", t, "user">>
  BY <1>1 DEF WaitingIs
<1>3. w # b /\ Waiting[b] = <<>> /\ Waiting[w] = peer[p][l] /\ Waiting'[w] = peer'[p][l]
      /\ Waiting'[b] = prog'[t].batch
  BY <1>1, <1>2 DEF WaitingIs
<1>4. /\ peer'[p][l] = SubSeq(peer[p][l], n + 1, Len(peer[p][l]))
      /\ \A r \in Personas, k \in Levels : r # p \/ k # l => peer'[r][k] = peer[r][k]
  <2>1. PICK q \in [Personas -> [Levels -> Seq(Items)]] : q = peer
    BY <1>0 DEF TypeOK
  <2>2. /\ Detached(q, p, l, n)[p][l] = SubSeq(q[p][l], n + 1, Len(q[p][l]))
        /\ \A r \in Personas, k \in Levels : r # p \/ k # l => Detached(q, p, l, n)[r][k] = q[r][k]
    BY DetachedFacts
  <2>3. QED
    BY <2>1, <2>2
<1>5. PlacesKeep(w, b)
  BY <1>2, <1>4 DEF PlacesKeep
<1>6. QED
  BY <1>3, <1>4, <1>5, WaitMove DEF WaitsKept

LEMMA DetachSelf ==
  ASSUME ProgressInv, TypeOK', NEW t \in Threads, NEW p \in Personas, NEW l \in Levels, NEW n \in Nat,
         prog[t].batch = <<>>, prog'[t].batch = Taken(self[p][l], n), self' = Detached(self, p, l, n),
         UNCHANGED <<peer, pros>>, \A u \in Threads : u # t => prog'[u] = prog[u]
  PROVE  WaitsKept
<1>0. TypeOK
  BY DEF ProgressInv
<1>1. WaitingIs /\ WaitingIs'
  BY <1>0, WaitingTyped, WaitingTypedNext
<1>2. PICK w \in Places, b \in Places : w = <<"self", p, l>> /\ b = <<"burst", t, "user">>
  BY <1>1 DEF WaitingIs
<1>3. w # b /\ Waiting[b] = <<>> /\ Waiting[w] = self[p][l] /\ Waiting'[w] = self'[p][l]
      /\ Waiting'[b] = prog'[t].batch
  BY <1>1, <1>2 DEF WaitingIs
<1>4. /\ self'[p][l] = SubSeq(self[p][l], n + 1, Len(self[p][l]))
      /\ \A r \in Personas, k \in Levels : r # p \/ k # l => self'[r][k] = self[r][k]
  <2>1. PICK q \in [Personas -> [Levels -> Seq(Items)]] : q = self
    BY <1>0 DEF TypeOK
  <2>2. /\ Detached(q, p, l, n)[p][l] = SubSeq(q[p][l], n + 1, Len(q[p][l]))
        /\ \A r \in Personas, k \in Levels : r # p \/ k # l => Detached(q, p, l, n)[r][k] = q[r][k]
    BY DetachedFacts
  <2>3. QED
    BY <2>1, <2>2
<1>5. PlacesKeep(w, b)
  BY <1>2, <1>4 DEF PlacesKeep
<1>6. QED
  BY <1>3, <1>4, <1>5, WaitMove DEF WaitsKept

\* The burst of the deferred promises takes all of them.
LEMMA DetachPromises ==
  ASSUME ProgressInv, TypeOK', NEW t \in Threads, NEW p \in Personas,
         prog[t].batch = <<>>, prog'[t].batch = pros[p], pros' = [pros EXCEPT ![p] = <<>>],
         UNCHANGED <<peer, self>>, \A u \in Threads : u # t => prog'[u] = prog[u]
  PROVE  WaitsKept
<1>0. TypeOK
  BY DEF ProgressInv
<1>1. WaitingIs /\ WaitingIs'
  BY <1>0, WaitingTyped, WaitingTypedNext
<1>2. PICK w \in Places, b \in Places : w = <<"pros", p, "user">> /\ b = <<"burst", t, "user">>
  BY <1>1 DEF WaitingIs
<1>3. w # b /\ Waiting[b] = <<>> /\ Waiting[w] = pros[p] /\ Waiting'[w] = pros'[p]
      /\ Waiting'[b] = prog'[t].batch
  BY <1>1, <1>2 DEF WaitingIs
<1>4. pros'[p] = <<>> /\ \A r \in Personas : r # p => pros'[r] = pros[r]
  BY <1>0 DEF TypeOK
<1>5. PlacesKeep(w, b)
  BY <1>2, <1>4 DEF PlacesKeep
<1>6. PICK s \in Seq(Promises) : s = pros[p]
  BY <1>0 DEF TypeOK
<1>7. PICK n \in Nat : n = Len(s)
  BY LenProperties
<1>8. Taken(s, n) = s /\ SubSeq(s, n + 1, Len(s)) = <<>>
  <2>1. Taken(s, n) = SubSeq(s, 1, n)
    BY <1>7 DEF Taken
  <2>2. 1 \in Nat \ {0} /\ n \in 0 .. Len(s) /\ n + 1 \in Nat \ {0}
    BY <1>7
  <2>3. /\ SubSeq(s, 1, n) \in Seq(Promises) /\ DOMAIN s = 1 .. Len(s)
        /\ Len(SubSeq(s, 1, n)) = (IF 1 <= n THEN n - 1 + 1 ELSE 0)
        /\ \A k \in 1 .. n - 1 + 1 : SubSeq(s, 1, n)[k] = s[1 + k - 1]
    BY <2>2, SubSeqFacts
  <2>4. Len(SubSeq(s, 1, n)) = Len(s) /\ \A k \in 1 .. Len(s) : SubSeq(s, 1, n)[k] = s[k]
    BY <1>7, <2>3
  <2>5. SubSeq(s, 1, n) = s
    BY <2>3, <2>4, SeqEqual
  <2>6. PICK a \in Nat \ {0} : a = n + 1
    BY <2>2
  <2>7. SubSeq(s, a, n) \in Seq(Promises) /\ Len(SubSeq(s, a, n)) = (IF a <= n THEN n - a + 1 ELSE 0)
    BY <2>2, SubSeqFacts
  <2>8. Len(SubSeq(s, a, n)) = 0
    BY <1>7, <2>6, <2>7
  <2>9. SubSeq(s, a, n) = <<>>
    BY <2>7, <2>8, EmptySeq
  <2>10. QED
    BY <1>7, <2>1, <2>5, <2>6, <2>9
<1>9. Waiting'[b] = Taken(Waiting[w], n) /\ Waiting'[w] = SubSeq(Waiting[w], n + 1, Len(Waiting[w]))
  BY <1>3, <1>4, <1>6, <1>8
<1>10. QED
  BY <1>3, <1>5, <1>9, WaitMove DEF WaitsKept
\* A phase of a visit begins: what waits is where it was, or in the burst.
LEMMA BurstStep ==
  ASSUME ProgressInv, NEW t \in Threads, TypeOK', WaitsKept, PromisesCount',
         UNCHANGED <<owner, stack, unique, progressing, promises, frames, state>>,
         NEW d, prog'[t] = d, \A u \in Threads : u # t => prog'[u] = prog[u],
         \A u \in Threads : u # t => burstable'[u] = burstable[u],
         LevelsOK(progressing[t], burstable'[t], d, frames[t]),
         Visiting(prog[t]), d.at = prog[t].at, d.depth = prog[t].depth
  PROVE  ProgressInv'
<1>0. /\ TypeOK /\ ScopesExact /\ ItemsWait /\ ItemsRun /\ PromisesWait
      /\ StackOK(scopes[t], unique[t], prog[t], frames[t])
  BY ThreadFacts, InvParts
<1>1. ScopesExact'
  BY <1>0 DEF ScopesExact, stack
<1>2. ItemsWait'
  BY <1>0 DEF ItemsWait, WaitsKept
<1>3. PromisesWait'
  BY <1>0 DEF PromisesWait, WaitsKept, promises
<1>4. ItemsRun'
  BY <1>0, RunKeeps
<1>5. StackOK(scopes[t], unique[t], d, frames[t])
  BY <1>0, StackCall
<1>6. Elsewhere(t) /\ ThreadOK(t)'
  BY <1>5 DEF Elsewhere, ThreadOK, stack
<1>7. QED
  BY <1>1, <1>2, <1>3, <1>4, <1>6, StepParts

\* What a thread between two lpcs of a visit knows.
LEMMA VisitFacts ==
  ASSUME ProgressInv, NEW t \in Threads, ~ InFrame(t), Phase(t) \notin {"idle", "poll"}
  PROVE  /\ Len(frames[t]) = prog[t].depth /\ Visiting(prog[t]) /\ Visited(t) \in Personas
<1>0. /\ TypeOK /\ StackOK(scopes[t], unique[t], prog[t], frames[t])
      /\ StackTypes(scopes[t], prog[t], frames[t])
  BY ThreadFacts
<1>1. Len(frames[t]) = prog[t].depth /\ Visiting(prog[t])
  BY <1>0 DEF InFrame, StackTypes, Visiting, Phase
<1>2. prog[t].at \in DOMAIN unique[t]
  BY <1>0, <1>1 DEF StackOK, VisitNests
<1>3. unique[t][prog[t].at] \in Personas
  BY <1>0, <1>2, ThreadTypes
<1>4. QED
  BY <1>1, <1>3 DEF Visited

LEMMA RefillStep ==
  ASSUME ProgressInv, NEW t \in Threads, Refill(t)
  PROVE  ProgressInv'
<1>0. /\ TypeOK /\ prog[t] \in Call /\ burstable[t] \in BOOLEAN /\ FramesOK(frames[t], prog[t])
      /\ LevelsOK(progressing[t], burstable[t], prog[t], frames[t]) /\ PromisesCount
  BY ThreadFacts
<1>a. /\ UNCHANGED <<owner, stack, unique, progressing, burstable, self, pros, promises, frames, state>>
      /\ prog[t].phase \in {"peer_internal", "peer_user"} /\ prog[t].batch = <<>>
      /\ Len(frames[t]) = prog[t].depth /\ Visiting(prog[t])
  <2>1. ~ InFrame(t) /\ Phase(t) \in {"peer_internal", "peer_user"}
    BY DEF Refill
  <2>2. Phase(t) \notin {"idle", "poll"}
    BY <2>1
  <2>3. Len(frames[t]) = prog[t].depth /\ Visiting(prog[t])
    BY <2>1, <2>2, VisitFacts
  <2>4. QED
    BY <2>1, <2>3 DEF Refill, Phase
<1>b. PICK p \in Personas, l \in Levels, n \in Nat :
        /\ n = prog[t].left
        /\ prog' = [prog EXCEPT ![t].batch = Taken(peer[p][l], n)]
        /\ peer' = Detached(peer, p, l, n)
  <2>1. Visited(t) \in Personas
    <3>1. ~ InFrame(t) /\ Phase(t) \notin {"idle", "poll"}
      BY DEF Refill
    <3>2. QED
      BY <3>1, VisitFacts
  <2>2. (IF Phase(t) = "peer_user" THEN "user" ELSE "internal") \in Levels
    BY DEF Levels
  <2>3. prog[t].left \in Nat
    BY <1>0 DEF Call
  <2>4. QED
    BY <2>1, <2>2, <2>3 DEF Refill
<1>1. PICK q \in [Personas -> [Levels -> Seq(Items)]] : q = peer
  BY <1>0 DEF TypeOK
<1>2. peer' \in [Personas -> [Levels -> Seq(Items)]] /\ Taken(peer[p][l], n) \in Seq(Items)
  BY <1>1, <1>b, DetachedFacts
<1>3. PICK c \in Call, s \in Seq(Items \cup Promises) : c = prog[t] /\ s = Taken(peer[p][l], n)
  BY <1>0, <1>2, BatchTypes
<1>4. PICK d : d = [c EXCEPT !.batch = s]
  OBVIOUS
<1>5. d \in Call /\ d.phase = c.phase /\ d.depth = c.depth /\ d.at = c.at /\ d.batch = s
  BY <1>4 DEF Call
<1>6. prog' = [prog EXCEPT ![t] = d]
  BY <1>0, <1>3, <1>4, <1>b DEF TypeOK, Call
<1>7. /\ prog' \in [Threads -> Call] /\ prog'[t] = d
      /\ \A u \in Threads : u # t => prog'[u] = prog[u]
  BY <1>0, <1>5, <1>6, CallMoves
<1>8. TypeOK'
  BY <1>0, <1>2, <1>7, <1>a DEF TypeOK, stack, promises
<1>9. WaitsKept
  BY <1>3, <1>5, <1>7, <1>8, <1>a, <1>b, DetachPeer
<1>10. LevelsOK(progressing[t], burstable'[t], d, frames[t])
  <2>1. /\ prog[t].phase # "idle" /\ d.phase = prog[t].phase /\ d.depth = prog[t].depth
        /\ d.phase \notin {"poll", "handles", "leave"} /\ d.phase # "idle"
        /\ d.phase \in UserPhases => progressing[t] = "user"
    BY <1>0, <1>3, <1>5, <1>a DEF LevelsOK
  <2>2. burstable'[t] <=> IF (prog[t].phase \in UserPhases) # (d.phase \in UserPhases)
                          THEN ~ burstable[t] ELSE burstable[t]
    BY <1>a, <2>1
  <2>3. QED
    BY <1>0, <1>a, <2>1, <2>2, LevelsPhase
<1>11. PromisesCount'
  BY <1>0, <1>a, CountKeeps DEF promises
<1>12. QED
  BY <1>3, <1>5, <1>7, <1>8, <1>9, <1>10, <1>11, <1>a, BurstStep
\* A visit goes on to the phase `to' with the burst s.
PhaseMoves(t, to, s, n) ==
  /\ UNCHANGED <<owner, stack, unique, progressing, promises, frames, state>>
  /\ prog' = [prog EXCEPT ![t].phase = to, ![t].left = n, ![t].batch = s]
  /\ burstable' = IF (prog[t].phase \in UserPhases) # (to \in UserPhases)
                  THEN [burstable EXCEPT ![t] = ~ @] ELSE burstable
  /\ Len(frames[t]) = prog[t].depth /\ Visiting(prog[t])
  /\ to \in {"peer_internal", "self_internal", "leave"} \cup UserPhases
  /\ to \in UserPhases => progressing[t] = "user"
  /\ to = "leave" => s = <<>>
  /\ s \in Seq(Items \cup Promises) /\ n \in Nat
  /\ peer' \in [Personas -> [Levels -> Seq(Items)]]
  /\ self' \in [Personas -> [Levels -> Seq(Items)]]
  /\ pros' \in [Personas -> Seq(Promises)]

LEMMA PhaseStep ==
  ASSUME ProgressInv, NEW t \in Threads, NEW to, NEW s, NEW n, PhaseMoves(t, to, s, n)
  PROVE  /\ TypeOK' /\ prog'[t].batch = s /\ \A u \in Threads : u # t => prog'[u] = prog[u]
         /\ WaitsKept /\ PromisesCount' => ProgressInv'
<1> USE DEF PhaseMoves
<1>0. /\ TypeOK /\ prog[t] \in Call /\ burstable[t] \in BOOLEAN /\ FramesOK(frames[t], prog[t])
      /\ LevelsOK(progressing[t], burstable[t], prog[t], frames[t])
  BY ThreadFacts
<1>1. PICK c \in Call : c = prog[t]
  BY <1>0
<1>2. PICK d : d = [c EXCEPT !.phase = to, !.left = n, !.batch = s]
  OBVIOUS
<1>3. d \in Call /\ d.phase = to /\ d.depth = c.depth /\ d.at = c.at /\ d.batch = s
  <2>1. to \in Phases
    BY DEF Phases, UserPhases
  <2>2. QED
    BY <1>2, <2>1 DEF Call
<1>4. prog' = [prog EXCEPT ![t] = d]
  BY <1>0, <1>1, <1>2 DEF TypeOK, Call
<1>5. /\ prog' \in [Threads -> Call] /\ prog'[t] = d
      /\ \A u \in Threads : u # t => prog'[u] = prog[u]
  BY <1>0, <1>3, <1>4, CallMoves
<1>6. PICK B \in BOOLEAN : B <=> ((prog[t].phase \in UserPhases) # (to \in UserPhases))
  OBVIOUS
<1>7. /\ burstable' \in [Threads -> BOOLEAN]
      /\ burstable'[t] <=> IF B THEN ~ burstable[t] ELSE burstable[t]
      /\ \A u \in Threads : u # t => burstable'[u] = burstable[u]
  <2>1. burstable' = IF B THEN [burstable EXCEPT ![t] = ~ @] ELSE burstable
    BY <1>6
  <2>2. QED
    BY <1>0, <2>1, FlipBit
<1>8. TypeOK'
  BY <1>0, <1>5, <1>7 DEF TypeOK, stack, promises
<1>9. LevelsOK(progressing[t], burstable'[t], d, frames[t])
  <2>1. /\ prog[t].phase # "idle" /\ d.phase # "idle" /\ d.depth = prog[t].depth
        /\ d.phase \in UserPhases => progressing[t] = "user"
        /\ d.phase \in {"poll", "handles", "leave"} => d.batch = <<>>
    BY <1>1, <1>3 DEF Visiting, UserPhases
  <2>2. burstable'[t] <=> IF (prog[t].phase \in UserPhases) # (d.phase \in UserPhases)
                          THEN ~ burstable[t] ELSE burstable[t]
    BY <1>3, <1>6, <1>7
  <2>3. QED
    BY <1>0, <2>1, <2>2, LevelsPhase
<1>10. ASSUME WaitsKept, PromisesCount'
       PROVE  ProgressInv'
  BY <1>1, <1>3, <1>5, <1>7, <1>8, <1>9, <1>10, BurstStep
<1>11. QED
  BY <1>3, <1>5, <1>8, <1>10

LEMMA NextPhaseStep ==
  ASSUME ProgressInv, NEW t \in Threads, NextPhase(t)
  PROVE  ProgressInv'
<1>0. /\ TypeOK /\ LevelsOK(progressing[t], burstable[t], prog[t], frames[t]) /\ PromisesCount
  BY ThreadFacts
<1>1. /\ ~ InFrame(t) /\ prog[t].batch = <<>>
      /\ Phase(t) \in {"handles", "peer_internal", "self_internal"} \cup UserPhases
      /\ Phase(t) \notin {"idle", "poll"}
      /\ UNCHANGED <<owner, stack, unique, progressing, promises, frames, state>>
  BY DEF NextPhase, UserPhases
<1>2. Len(frames[t]) = prog[t].depth /\ Visiting(prog[t]) /\ Visited(t) \in Personas
  BY <1>1, VisitFacts
<1>3. PICK to : to = PhaseAfter(t)
  OBVIOUS
<1>4. /\ to \in {"peer_internal", "self_internal", "leave"} \cup UserPhases
      /\ to \in UserPhases => progressing[t] = "user"
  BY <1>0, <1>1, <1>3 DEF PhaseAfter, UserPhases, LevelsOK, Phase
<1>5. PICK p \in Personas, l \in Levels :
        p = Visited(t) /\ l = (IF to \in UserPhases THEN "user" ELSE "internal")
  BY <1>2 DEF Levels
<1>6. burstable' = IF (prog[t].phase \in UserPhases) # (to \in UserPhases)
                   THEN [burstable EXCEPT ![t] = ~ @] ELSE burstable
  BY <1>3 DEF NextPhase, FlipUser, Phase
<1>7. PICK P \in BOOLEAN, S \in BOOLEAN :
        (P <=> to \in {"peer_internal", "peer_user"}) /\ (S <=> to \in {"self_internal", "self_user"})
  OBVIOUS
<1>8. /\ prog' = [prog EXCEPT ![t].phase = to, ![t].left = IF P THEN BurstMax ELSE 0,
                              ![t].batch = IF P THEN Taken(peer[p][l], BurstMax)
                                           ELSE IF S THEN Taken(self[p][l], BurstMax)
                                           ELSE IF to = "promises" THEN pros[p] ELSE <<>>]
      /\ peer' = IF P THEN Detached(peer, p, l, BurstMax) ELSE peer
      /\ self' = IF S THEN Detached(self, p, l, BurstMax) ELSE self
      /\ pros' = IF to = "promises" THEN [pros EXCEPT ![p] = <<>>] ELSE pros
  BY <1>3, <1>5, <1>7, Zenon DEF NextPhase
<1>9. PICK q \in [Personas -> [Levels -> Seq(Items)]], r \in [Personas -> [Levels -> Seq(Items)]] :
        q = peer /\ r = self
  BY <1>0 DEF TypeOK
<1>10. BurstMax \in Nat /\ 0 \in Nat /\ pros \in [Personas -> Seq(Promises)]
  BY <1>0, ProgressAssumption DEF TypeOK
<1>11. /\ Detached(q, p, l, BurstMax) \in [Personas -> [Levels -> Seq(Items)]]
       /\ Taken(q[p][l], BurstMax) \in Seq(Items)
       /\ Detached(r, p, l, BurstMax) \in [Personas -> [Levels -> Seq(Items)]]
       /\ Taken(r[p][l], BurstMax) \in Seq(Items)
  BY <1>10, DetachedFacts
<1>12. CASE to \in {"peer_internal", "peer_user"}
  <2>1. P /\ ~ S /\ to # "promises" /\ to # "leave"
    BY <1>7, <1>12
  <2>2. PICK s \in Seq(Items \cup Promises) : s = Taken(q[p][l], BurstMax)
    BY <1>11, BatchTypes
  <2>3. /\ prog' = [prog EXCEPT ![t].phase = to, ![t].left = BurstMax, ![t].batch = s]
        /\ peer' = Detached(q, p, l, BurstMax) /\ self' = self /\ pros' = pros
    BY <1>8, <1>9, <2>1, <2>2
  <2>4. PhaseMoves(t, to, s, BurstMax)
    BY <1>1, <1>2, <1>4, <1>6, <1>9, <1>10, <1>11, <2>1, <2>3 DEF PhaseMoves
  <2>5. TypeOK' /\ prog'[t].batch = s /\ \A u \in Threads : u # t => prog'[u] = prog[u]
    BY <2>4, PhaseStep
  <2>6. WaitsKept
    BY <1>1, <1>9, <1>10, <2>2, <2>3, <2>5, DetachPeer
  <2>7. PromisesCount'
    BY <1>0, <1>1, <2>3, CountKeeps DEF promises
  <2>8. QED
    BY <2>4, <2>6, <2>7, PhaseStep
<1>13. CASE to \in {"self_internal", "self_user"}
  <2>1. ~ P /\ S /\ to # "promises" /\ to # "leave"
    BY <1>7, <1>13
  <2>2. PICK s \in Seq(Items \cup Promises) : s = Taken(r[p][l], BurstMax)
    BY <1>11, BatchTypes
  <2>3. /\ prog' = [prog EXCEPT ![t].phase = to, ![t].left = 0, ![t].batch = s]
        /\ self' = Detached(r, p, l, BurstMax) /\ peer' = peer /\ pros' = pros
    BY <1>8, <1>9, <2>1, <2>2
  <2>4. PhaseMoves(t, to, s, 0)
    BY <1>1, <1>2, <1>4, <1>6, <1>9, <1>10, <1>11, <2>1, <2>3 DEF PhaseMoves
  <2>5. TypeOK' /\ prog'[t].batch = s /\ \A u \in Threads : u # t => prog'[u] = prog[u]
    BY <2>4, PhaseStep
  <2>6. WaitsKept
    BY <1>1, <1>9, <1>10, <2>2, <2>3, <2>5, DetachSelf
  <2>7. PromisesCount'
    BY <1>0, <1>1, <2>3, CountKeeps DEF promises
  <2>8. QED
    BY <2>4, <2>6, <2>7, PhaseStep
<1>14. CASE to = "promises"
  <2>1. ~ P /\ ~ S /\ to # "leave"
    BY <1>7, <1>14
  <2>2. PICK s \in Seq(Items \cup Promises) : s = pros[p]
    BY <1>10, BatchTypes
  <2>3. /\ prog' = [prog EXCEPT ![t].phase = to, ![t].left = 0, ![t].batch = s]
        /\ self' = self /\ peer' = peer /\ pros' = [pros EXCEPT ![p] = <<>>]
    BY <1>8, <1>9, <1>14, <2>1, <2>2
  <2>4. PhaseMoves(t, to, s, 0)
    <3>1. pros' \in [Personas -> Seq(Promises)]
      <4>1. <<>> \in Seq(Promises)
        OBVIOUS
      <4>2. QED
        BY <1>10, <2>3, <4>1
    <3>2. QED
      BY <1>1, <1>2, <1>4, <1>6, <1>9, <1>10, <2>1, <2>3, <3>1 DEF PhaseMoves
  <2>5. TypeOK' /\ prog'[t].batch = s /\ \A u \in Threads : u # t => prog'[u] = prog[u]
    BY <2>4, PhaseStep
  <2>6. WaitsKept
    BY <1>1, <2>2, <2>3, <2>5, DetachPromises
  <2>7. PromisesCount'
    <3>1. \A x \in Promises, u \in Personas : x \in SeqSet(pros'[u]) => x \in SeqSet(pros[u])
      <4>1. SUFFICES ASSUME NEW x \in Promises, NEW u \in Personas, x \in SeqSet(pros'[u])
                     PROVE  x \in SeqSet(pros[u])
        OBVIOUS
      <4>2. CASE u = p
        BY <1>10, <2>3, <4>1, <4>2 DEF SeqSet
      <4>3. CASE u # p
        BY <1>10, <2>3, <4>1, <4>3
      <4>4. QED
        BY <4>2, <4>3
    <3>2. QED
      BY <1>0, <1>1, <3>1 DEF PromisesCount, promises
  <2>8. QED
    BY <2>4, <2>6, <2>7, PhaseStep
<1>15. CASE to = "leave"
  <2>1. ~ P /\ ~ S /\ to # "promises"
    BY <1>7, <1>15
  <2>2. /\ prog' = [prog EXCEPT ![t].phase = to, ![t].left = 0, ![t].batch = <<>>]
        /\ self' = self /\ peer' = peer /\ pros' = pros
    BY <1>8, <2>1
  <2>3. PhaseMoves(t, to, <<>>, 0)
    <3>1. <<>> \in Seq(Items \cup Promises)
      OBVIOUS
    <3>2. QED
      BY <1>1, <1>2, <1>4, <1>6, <1>9, <1>10, <2>2, <3>1 DEF PhaseMoves
  <2>4. TypeOK' /\ prog'[t].batch = <<>> /\ \A u \in Threads : u # t => prog'[u] = prog[u]
    BY <2>3, PhaseStep
  <2>5. WaitsKept
    <3>1. \A u \in Threads : prog'[u].batch = prog[u].batch
      BY <1>1, <2>4
    <3>2. Waiting' = Waiting
      BY <1>0, <2>2, <2>4, <3>1, WaitSame DEF queues
    <3>3. ItemsWait /\ PromisesWait
      BY InvParts
    <3>4. QED
      BY <3>2, <3>3 DEF WaitsKept, ItemsWait, PromisesWait
  <2>6. PromisesCount'
    BY <1>0, <1>1, <2>2, CountKeeps DEF promises
  <2>7. QED
    BY <2>3, <2>5, <2>6, PhaseStep
<1>16. QED
  BY <1>4, <1>12, <1>13, <1>14, <1>15 DEF UserPhases
-----------------------------------------------------------------------------
(* The initial states, and all steps                                       *)

LEMMA InitTypes == Init => TypeOK
<1> SUFFICES ASSUME Init
             PROVE  TypeOK
  OBVIOUS
<1>1. /\ \A t \in Threads : t \in Personas
      /\ \A S : <<>> \in Seq(S)
      /\ Nobody \in Threads \cup {Nobody}
  BY DEF Personas
<1>2. owner \in [Personas -> Threads \cup {Nobody}]
  BY DEF Init
<1>3. scopes \in [Threads -> Seq(Scope)]
  <2>1. \A t \in Threads : [persona |-> t, kind |-> "unique", saved |-> t] \in Scope
    BY <1>1 DEF Scope
  <2>2. ASSUME NEW s \in Scope
        PROVE  <<s>> \in Seq(Scope)
    OBVIOUS
  <2>3. QED
    BY <2>1, <2>2 DEF Init
<1>4. top \in [Threads -> Personas] /\ unique \in [Threads -> Seq(Personas)]
  BY <1>1 DEF Init
<1>5. progressing \in [Threads -> Levels \cup {"none"}] /\ burstable \in [Threads -> BOOLEAN]
  BY DEF Init
<1>6. /\ peer \in [Personas -> [Levels -> Seq(Items)]] /\ self \in [Personas -> [Levels -> Seq(Items)]]
      /\ pros \in [Personas -> Seq(Promises)]
  BY <1>1 DEF Init
<1>7. pro \in [Promises -> [countdown : Nat, deferred : Nat]] /\ pending \in [Promises -> Nat]
  BY DEF Init
<1>8. prog \in [Threads -> Call]
  <2>1. Idle \in Call
    BY IdleCall
  <2>2. QED
    BY <2>1 DEF Init
<1>9. frames \in [Threads -> Seq(Frame)]
  BY <1>1 DEF Init
<1>10. state \in [Items \cup Promises -> {"new", "queued", "running", "done"}]
  BY DEF Init
<1>11. QED
  BY <1>2, <1>3, <1>4, <1>5, <1>6, <1>7, <1>8, <1>9, <1>10 DEF TypeOK

LEMMA InitStep == Init => ProgressInv
<1> SUFFICES ASSUME Init
             PROVE  ProgressInv
  OBVIOUS
<1>0. TypeOK /\ WaitingIs
  BY InitTypes, WaitingTyped
<1>1. ASSUME NEW t \in Threads
      PROVE  /\ Len(scopes[t]) = 1 /\ DOMAIN scopes[t] = {1}
             /\ scopes[t][1].persona = t /\ scopes[t][1].kind = "unique" /\ scopes[t] # <<>>
             /\ DOMAIN unique[t] = {1} /\ unique[t][1] = t
             /\ top[t] = t /\ progressing[t] = "none"
             /\ prog[t].phase = "idle" /\ prog[t].depth = 0 /\ prog[t].batch = <<>>
             /\ Len(frames[t]) = 0 /\ DOMAIN frames[t] = {}
  BY DEF Init, Idle
<1>a. \A t \in Threads : burstable[t] = FALSE
  BY DEF Init
<1>2. ScopesExact
  <2>1. SUFFICES ASSUME NEW t \in Threads
                 PROVE  /\ scopes[t] # <<>> /\ top[t] = scopes[t][Len(scopes[t])].persona
                        /\ ChainExact(scopes[t], unique[t])
                        /\ \A p \in Personas : owner[p] = t <=> \E n \in DOMAIN unique[t] : unique[t][n] = p
                        /\ \A k \in DOMAIN scopes[t] : owner[scopes[t][k].persona] = t
    BY DEF ScopesExact
  <2>a. PICK S, U : /\ S = scopes[t] /\ U = unique[t] /\ DOMAIN S = {1} /\ DOMAIN U = {1}
                    /\ S[1].kind = "unique" /\ S[1].persona = t /\ U[1] = t
    <3>1. /\ DOMAIN scopes[t] = {1} /\ DOMAIN unique[t] = {1} /\ scopes[t][1].kind = "unique"
          /\ scopes[t][1].persona = t /\ unique[t][1] = t
      BY <1>1
    <3>2. QED
      BY <3>1
  <2>2. ChainExact(S, U)
    <3>1. Chained(S, U, 1, 1)
      BY <2>a DEF Chained
    <3>2. QED
      BY <2>a, <3>1 DEF ChainExact
  <2>3. \A p \in Personas : owner[p] = t <=> p = t
    BY ProgressAssumption DEF Init, Personas
  <2>4. t \in Personas
    BY DEF Personas
  <2>5. QED
    BY <1>1, <2>2, <2>3, <2>4, <2>a
<1>3. ASSUME NEW w \in Places
      PROVE  DOMAIN Waiting[w] = {}
  <2>1. \A p \in Personas, l \in Levels : peer[p][l] = <<>> /\ self[p][l] = <<>>
    BY DEF Init
  <2>2. \A p \in Personas : pros[p] = <<>>
    BY DEF Init
  <2>3. CASE \E p \in Personas, l \in Levels : w = <<"peer", p, l>> \/ w = <<"self", p, l>>
    <3>1. Waiting[w] = <<>>
      BY <1>0, <2>1, <2>3, ZenonT(60) DEF WaitingIs
    <3>2. QED
      BY <3>1
  <2>4. CASE \E p \in Personas : w = <<"pros", p, "user">>
    <3>1. Waiting[w] = <<>>
      BY <1>0, <2>2, <2>4 DEF WaitingIs
    <3>2. QED
      BY <3>1
  <2>5. CASE \E t \in Threads : w = <<"burst", t, "user">>
    <3>0. PICK t \in Threads : w = <<"burst", t, "user">>
      BY <2>5
    <3>a. prog[t].batch = <<>>
      BY <1>1
    <3>b. Waiting[<<"burst", t, "user">>] = prog[t].batch
      BY <1>0 DEF WaitingIs
    <3>1. Waiting[w] = <<>>
      BY <3>0, <3>a, <3>b
    <3>2. QED
      BY <3>1
  <2>6. QED
    BY <2>3, <2>4, <2>5 DEF Places
<1>4. \A x : ~ In(Waiting, x) /\ Once(Waiting, x)
  <2>1. DOMAIN Waiting = Places
    BY <1>0 DEF WaitingIs
  <2>2. QED
    BY <1>3, <2>1 DEF In, Once
<1>5. ItemsWait /\ ItemsRun
  BY <1>1, <1>4 DEF ItemsWait, ItemsRun, Runs, Init
<1>6. PromisesWait /\ PromisesCount
  <2>1. \A x \in Promises : /\ pro[x].countdown = 1 /\ pro[x].deferred = 0 /\ pending[x] = 0
                            /\ state[x] = "new"
    BY DEF Init
  <2>2. \A p \in Personas : SeqSet(pros[p]) = {}
    BY DEF Init, SeqSet
  <2>3. QED
    BY <1>4, <2>1, <2>2 DEF PromisesWait, PromisesCount
<1>7. ASSUME NEW t \in Threads
      PROVE  ThreadOK(t)
  <2>0. PICK S, c, F : /\ S = scopes[t] /\ c = prog[t] /\ F = frames[t]
                       /\ Len(S) = 1 /\ DOMAIN S = {1} /\ S[1].kind = "unique"
                       /\ c.phase = "idle" /\ c.depth = 0 /\ c.batch = <<>>
                       /\ Len(F) = 0 /\ DOMAIN F = {}
    BY <1>1
  <2>1. LevelsOK("none", FALSE, c, F)
    <3>1. UserFrames(F) = {} /\ c.phase \notin UserPhases
      BY <2>0 DEF UserFrames, UserPhases
    <3>2. QED
      BY <2>0, <3>1 DEF LevelsOK
  <2>2. StackOK(S, unique[t], c, F)
    BY <2>0 DEF StackOK, ScopesNest, FramesNest, Visiting
  <2>3. QED
    BY <1>1, <1>a, <2>0, <2>1, <2>2 DEF ThreadOK
<1>8. QED
  BY <1>0, <1>2, <1>5, <1>6, <1>7, InvParts

LEMMA StutterStep == ProgressInv /\ UNCHANGED vars => ProgressInv'
<1> SUFFICES ASSUME ProgressInv, UNCHANGED vars
             PROVE  ProgressInv'
  OBVIOUS
<1> USE DEF vars, stack, queues, promises
<1>1. TypeOK' /\ ScopesExact' /\ ItemsRun' /\ PromisesCount'
  BY InvParts DEF TypeOK, ScopesExact, ItemsRun, Runs, PromisesCount
<1>2. Waiting' = Waiting
  BY <1>1, WaitSame, InvParts
<1>3. ItemsWait' /\ PromisesWait'
  BY <1>2, InvParts DEF ItemsWait, PromisesWait
<1>4. \A t \in Threads : ThreadOK(t)'
  BY InvParts DEF ThreadOK
<1>5. (ProgressInv <=> /\ TypeOK /\ ScopesExact /\ ItemsWait /\ ItemsRun /\ PromisesWait /\ PromisesCount
                       /\ \A t \in Threads : ThreadOK(t))'
  BY InvParts, PTL
<1>6. QED
  BY <1>1, <1>3, <1>4, <1>5

LEMMA NextStep == ProgressInv /\ Next => ProgressInv'
<1> SUFFICES ASSUME ProgressInv, Next
             PROVE  ProgressInv'
  OBVIOUS
<1>1. PICK t \in Threads :
        \/ ThreadStep(t) \/ Return(t)
        \/ PopScope(t) \/ AfterGasnet(t)
        \/ \E l \in Levels : ProgressBegin(t, l)
        \/ \E p \in Personas :
             \/ PushScope(t, p)
             \/ \E l \in Levels, i \in Items : Send(t, p, l, i) \/ During(t, p, l, i)
        \/ \E x \in Promises : StartOp(t, x) \/ CompleteOp(t, x) \/ Finalize(t, x)
  BY DEF Next
<1>2. CASE ThreadStep(t)
  BY <1>2, PollEndStep, NextPhaseStep, RefillStep, RunNextStep, VisitEndStep, SweepAgainStep,
     ProgressEndStep DEF ThreadStep
<1>3. CASE Return(t) \/ PopScope(t) \/ AfterGasnet(t) \/ \E l \in Levels : ProgressBegin(t, l)
  BY <1>3, ReturnStep, PopScopeStep, AfterGasnetStep, ProgressBeginStep
<1>4. CASE \E p \in Personas : PushScope(t, p)
  BY <1>4, PushScopeStep
<1>5. CASE \E p \in Personas, l \in Levels, i \in Items : Send(t, p, l, i) \/ During(t, p, l, i)
  BY <1>5, SendStep, DuringStep
<1>6. CASE \E x \in Promises : StartOp(t, x) \/ CompleteOp(t, x) \/ Finalize(t, x)
  BY <1>6, StartOpStep, CompleteOpStep, FinalizeStep
<1>7. QED
  BY <1>1, <1>2, <1>3, <1>4, <1>5, <1>6

\* The inductive invariant holds always: types, the agreement of scopes, chain,
\* top and owners, the nesting of callbacks and scopes, the levels of a thread,
\* and where every lpc and every promise waits.
THEOREM ProgressInvariant == Spec => []ProgressInv
<1>1. Init => ProgressInv
  BY InitStep
<1>2. ProgressInv /\ [Next]_vars => ProgressInv'
  BY NextStep, StutterStep
<1>3. QED
  BY <1>1, <1>2, PTL DEF Spec
-----------------------------------------------------------------------------
(* The properties                                                          *)

\* Whatever scopes threads open and close, in callbacks and between them, the
\* scope stacks, the chains, the top personas and the owner fields agree: a
\* persona is never active with two threads.
THEOREM ScopesStayConsistent == Spec => []ScopesConsistent
<1>1. ProgressInv => ScopesConsistent
  BY DEF ProgressInv, ScopesConsistent
<1>2. QED
  BY <1>1, ProgressInvariant, PTL

\* At most one user-level callback is on the stack of a thread, and only inside
\* a user-level progress call: burst_user is never entered again from a callback,
\* nor does during start one there.
THEOREM UserCallbacksDoNotNest == Spec => []UserCallbacksNeverNest
<1>1. ProgressInv => UserCallbacksNeverNest
  <2>1. SUFFICES ASSUME ProgressInv, NEW t \in Threads
                 PROVE  /\ Cardinality(UserFrames(frames[t])) <= 1
                        /\ UserFrames(frames[t]) # {} => progressing[t] = "user"
    BY DEF UserCallbacksNeverNest
  <2>2. PICK A : A = UserFrames(frames[t])
    OBVIOUS
  <2>3. (A # {} => progressing[t] = "user") /\ \A j, k \in A : j = k
    <3>1. LevelsOK(progressing[t], burstable[t], prog[t], frames[t])
      BY <2>1, ThreadFacts
    <3>2. /\ \A k \in UserFrames(frames[t]) : progressing[t] = "user"
          /\ \A j, k \in UserFrames(frames[t]) : j = k
      BY <3>1 DEF LevelsOK
    <3>3. QED
      BY <2>2, <3>2
  <2>4. Cardinality(A) <= 1
    <3>1. CASE A = {}
      BY <3>1, FS_EmptySet
    <3>2. CASE A # {}
      <4>1. PICK k : A = {k}
        BY <2>3, <3>2, SMTT(60)
      <4>2. Cardinality({k}) = 1
        BY FS_Singleton
      <4>3. QED
        BY <4>1, <4>2
    <3>3. QED
      BY <3>1, <3>2
  <2>5. QED
    BY <2>2, <2>3, <2>4
<1>2. QED
  BY <1>1, ProgressInvariant, PTL

\* An lpc waits in one inbox or burst, once, until it runs, once, on the thread
\* that holds its persona, however personas move between threads (lpc_ff, during).
THEOREM LpcsStayExact == Spec => []LpcsExact
<1>1. ProgressInv => RightThread
  <2>1. SUFFICES ASSUME ProgressInv, NEW t \in Threads
                 PROVE  /\ \A k \in DOMAIN frames[t] :
                             /\ owner[frames[t][k].persona] = t
                             /\ scopes[t][frames[t][k].base].persona = frames[t][k].persona
                        /\ prog[t].batch # <<>> => owner[Visited(t)] = t
    BY DEF RightThread
  <2>2. /\ TypeOK /\ ScopesExact /\ StackOK(scopes[t], unique[t], prog[t], frames[t])
        /\ LevelsOK(progressing[t], burstable[t], prog[t], frames[t])
        /\ StackTypes(scopes[t], prog[t], frames[t])
    BY <2>1, ThreadFacts
  <2>3. ASSUME NEW k \in DOMAIN frames[t]
        PROVE  /\ owner[frames[t][k].persona] = t
               /\ scopes[t][frames[t][k].base].persona = frames[t][k].persona
    <3>1. PICK b : b = frames[t][k].base
      OBVIOUS
    <3>2. b \in DOMAIN scopes[t] /\ scopes[t][b].persona = frames[t][k].persona
      BY <2>2, <3>1 DEF StackOK, FramesNest, StackTypes
    <3>3. owner[scopes[t][b].persona] = t
      BY <2>2, <3>2 DEF ScopesExact
    <3>4. QED
      BY <3>1, <3>2, <3>3
  <2>4. ASSUME prog[t].batch # <<>>
        PROVE  owner[Visited(t)] = t
    <3>1. Visiting(prog[t])
      BY <2>2, <2>4 DEF LevelsOK, Visiting
    <3>2. prog[t].at \in DOMAIN unique[t]
      BY <2>2, <3>1 DEF StackOK, VisitNests
    <3>3. unique[t][prog[t].at] \in Personas
      BY <2>2, <3>2, ThreadTypes
    <3>4. QED
      BY <2>2, <3>2, <3>3 DEF ScopesExact, Visited
  <2>5. QED
    BY <2>3, <2>4
<1>2. ProgressInv => LpcsExact
  BY <1>1 DEF ProgressInv, LpcsExact
<1>3. QED
  BY <1>2, ProgressInvariant, PTL

\* A promise is linked in the queue of its persona, or in the burst of it,
\* exactly while decrements of it are deferred, and its counter is what is
\* still to come (fulfill_during_user_of_active, fulfill_deferred_and_drop).
THEOREM PromisesStayExact == Spec => []PromisesExact
<1>1. ProgressInv => PromisesExact
  BY DEF ProgressInv
<1>2. QED
  BY <1>1, ProgressInvariant, PTL
=============================================================================
