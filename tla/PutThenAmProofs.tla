--------------------------- MODULE PutThenAmProofs ---------------------------
(***************************************************************************)
(* PutInv is an inductive invariant of PutThenAm, for any puts, command    *)
(* sizes, part size, nonce width and number of ranks: commands are         *)
(* assembled whole, and the protocol keeps the promise of RemoteCompletion.*)
(***************************************************************************)
EXTENDS PutThenAm, FiniteSetTheorems, TLAPS

-----------------------------------------------------------------------------
(* Messages and the parts of a command                                     *)

LEMMA MsgFacts ==
  /\ \A m \in Msgs : /\ m.op \in Ops /\ m \in MsgsOf(m.op)
                     /\ m.kind \in {"packed", "payload", "cmd"}
                     /\ m.kind = "packed" <=> m.op \in Packed
                     /\ m.kind = "cmd" => m.off \in Offsets(m.op)
                     /\ m = [op |-> m.op, kind |-> m.kind, off |-> m.off]
                     /\ m.kind # "cmd" => m.off = 0
  /\ \A o \in Ops : \A m \in MsgsOf(o) : m.op = o /\ m \in Msgs
<1>1. ASSUME NEW o \in Ops, NEW m \in MsgsOf(o)
      PROVE  /\ m.op = o /\ m.kind \in {"packed", "payload", "cmd"}
             /\ m.kind = "packed" <=> o \in Packed
             /\ m.kind = "cmd" => m.off \in Offsets(o)
             /\ m = [op |-> m.op, kind |-> m.kind, off |-> m.off]
             /\ m.kind # "cmd" => m.off = 0
  BY <1>1 DEF MsgsOf
<1>2. ASSUME NEW m \in Msgs
      PROVE  \E o \in Ops : m \in MsgsOf(o)
  BY DEF Msgs
<1>3. ASSUME NEW o \in Ops, NEW m \in MsgsOf(o)
      PROVE  m \in Msgs
  BY DEF Msgs
<1>4. QED
  BY <1>1, <1>2, <1>3

\* The messages of a put that is not packed: its payload and its parts.
LEMMA MsgsKnown ==
  ASSUME NEW o \in Ops
  PROVE  /\ o \in Packed => MsgsOf(o) = {[op |-> o, kind |-> "packed", off |-> 0]}
         /\ o \notin Packed => [op |-> o, kind |-> "payload", off |-> 0] \in MsgsOf(o)
         /\ o \notin Packed => \A n \in Offsets(o) : [op |-> o, kind |-> "cmd", off |-> n] \in MsgsOf(o)
         /\ \A m, n \in MsgsOf(o) : m.kind = n.kind /\ m.off = n.off => m = n
         /\ \A m, n \in MsgsOf(o) : m.kind = n.kind /\ m.kind # "cmd" => m = n
BY DEF MsgsOf

\* A set of natural numbers has a least element.
LEMMA LeastNat ==
  ASSUME NEW S \in SUBSET Nat, S # {}
  PROVE  \E n \in S : \A k \in S : n <= k
<1> DEFINE R == OpToRel(<, Nat)
<1>1. IsWellFoundedOn(R, Nat)
  BY NatLessThanWellFounded
<1> HIDE DEF R
<1>2. PICK n \in S : \A k \in S : <<k, n>> \notin R
  BY <1>1, WFMin
<1>3. ASSUME NEW k \in S
      PROVE  n <= k
  <2>1. <<k, n>> \notin R
    BY <1>2
  <2>2. k \in Nat /\ n \in Nat
    BY <1>2
  <2>3. ~(k < n)
    BY <2>1, <2>2 DEF R, OpToRel
  <2>4. QED
    BY <2>2, <2>3
<1>4. QED
  BY <1>2, <1>3

\* A part is never empty and ends in the command.
LEMMA PartFacts ==
  ASSUME NEW o \in Ops, NEW n \in Offsets(o)
  PROVE  /\ n \in Nat /\ CmdSize[o] \in Nat /\ n < CmdSize[o]
         /\ PartSize(o, n) \in Nat /\ PartSize(o, n) > 0 /\ PartSize(o, n) <= PartMax
         /\ n + PartSize(o, n) <= CmdSize[o]
         /\ n + PartSize(o, n) = CmdSize[o] \/ PartSize(o, n) = PartMax
<1>1. CmdSize[o] \in Nat /\ PartMax \in Nat /\ PartMax > 0
  BY PutThenAmAssumption
<1>2. n \in Nat /\ n < CmdSize[o]
  BY <1>1 DEF Offsets
<1>3. QED
  BY <1>1, <1>2 DEF PartSize

\* Parts lie one behind the other.
LEMMA PartsApart ==
  ASSUME NEW o \in Ops, NEW n \in Offsets(o), NEW k \in Offsets(o), n < k
  PROVE  n + PartSize(o, n) = n + PartMax /\ n + PartMax <= k
<1>1. PartMax \in Nat /\ PartMax > 0
  BY PutThenAmAssumption
<1>2. PICK i \in Nat : n = i * PartMax
  BY PartFacts DEF Offsets
<1>3. PICK j \in Nat : k = j * PartMax
  BY PartFacts DEF Offsets
<1>4. i < j
  <2>1. SUFFICES ASSUME j <= i
                 PROVE  FALSE
    BY <1>2, <1>3
  <2>2. PICK d \in Nat : i = j + d
    <3>1. i - j \in Nat /\ i = j + (i - j)
      BY <1>2, <1>3, <2>1
    <3>2. QED
      BY <3>1
  <2>3. d * PartMax \in Nat
    BY <1>1, <2>2
  <2>4. i * PartMax = j * PartMax + d * PartMax
    BY <1>1, <1>3, <2>2
  <2>5. n >= k
    BY <1>2, <1>3, <2>3, <2>4, PartFacts
  <2>6. QED
    BY <2>5, PartFacts
<1>5. PICK e \in Nat : j = i + 1 + e
  <2>1. j - i - 1 \in Nat /\ j = i + 1 + (j - i - 1)
    BY <1>2, <1>3, <1>4
  <2>2. QED
    BY <2>1
<1>6. e * PartMax \in Nat
  BY <1>1, <1>5
<1>7. j * PartMax = i * PartMax + PartMax + e * PartMax
  BY <1>1, <1>2, <1>5
<1>8. n + PartMax <= k
  BY <1>1, <1>2, <1>3, <1>6, <1>7, PartFacts
<1>9. QED
  BY <1>1, <1>8, PartFacts

\* Every byte of the command is in a part.
LEMMA PartsCover ==
  ASSUME NEW o \in Ops, NEW b \in Nat, b < CmdSize[o]
  PROVE  \E n \in Offsets(o) : n <= b /\ b < n + PartSize(o, n)
<1>1. CmdSize[o] \in Nat /\ PartMax \in Nat /\ PartMax > 0
  BY PutThenAmAssumption
<1> DEFINE S == {k \in Nat : b < (k + 1) * PartMax}
<1>2. b \in S
  <2>1. (b + 1) * PartMax = b * PartMax + PartMax
    BY <1>1
  <2>2. b * PartMax >= b
    <3>1. PICK d \in Nat : PartMax = d + 1
      <4>1. PartMax - 1 \in Nat /\ PartMax = (PartMax - 1) + 1
        BY <1>1
      <4>2. QED
        BY <4>1
    <3>2. b * (d + 1) = b * d + b /\ b * d \in Nat
      BY <3>1
    <3>3. QED
      BY <3>1, <3>2
  <2>3. b * PartMax \in Nat
    BY <1>1
  <2>4. QED
    BY <1>1, <2>1, <2>2, <2>3
<1>3. PICK k \in S : \A j \in S : k <= j
  BY <1>2, LeastNat
<1>4. k \in Nat /\ b < (k + 1) * PartMax
  BY <1>3
<1> HIDE DEF S
<1>5. k * PartMax \in Nat /\ (k + 1) * PartMax = k * PartMax + PartMax
  BY <1>1, <1>4
<1>6. k * PartMax <= b
  <2>1. CASE k = 0
    BY <1>1, <2>1
  <2>2. CASE k # 0
    <3>1. PICK j \in Nat : k = j + 1
      <4>1. k - 1 \in Nat /\ k = (k - 1) + 1
        BY <1>4, <2>2
      <4>2. QED
        BY <4>1
    <3>2. j \notin S
      BY <1>3, <1>4, <3>1
    <3>3. (j + 1) * PartMax \in Nat /\ ~(b < (j + 1) * PartMax)
      BY <1>5, <3>1, <3>2 DEF S
    <3>4. QED
      BY <1>5, <3>1, <3>3
  <2>3. QED
    BY <2>1, <2>2
<1>7. k <= k * PartMax
  <2>1. PICK d \in Nat : PartMax = d + 1
    <3>1. PartMax - 1 \in Nat /\ PartMax = (PartMax - 1) + 1
      BY <1>1
    <3>2. QED
      BY <3>1
  <2>2. k * (d + 1) = k * d + k /\ k * d \in Nat
    BY <1>4, <2>1
  <2>3. QED
    BY <1>4, <2>1, <2>2
<1>8. PICK n \in Nat : n = k * PartMax
  BY <1>5
<1>9. n \in Offsets(o)
  <2>1. n < CmdSize[o] /\ k \in 0 .. n
    BY <1>1, <1>4, <1>6, <1>7, <1>8
  <2>2. QED
    BY <1>1, <1>8, <2>1 DEF Offsets
<1>10. b < n + PartMax
  BY <1>4, <1>5, <1>8
<1>11. n <= b /\ b < n + PartSize(o, n)
  BY <1>1, <1>6, <1>8, <1>9, <1>10, PartFacts
<1>12. QED
  BY <1>9, <1>11

-----------------------------------------------------------------------------
(* Credits                                                                 *)

Weight(m) == IF m.kind = "payload" THEN 1 ELSE PartSize(m.op, m.off)

LEMMA UnitFacts ==
  ASSUME NEW o \in Ops \ Packed
  PROVE  /\ \A m \in MsgsOf(o) : /\ IsFiniteSet(Units(m)) /\ Cardinality(Units(m)) = Weight(m)
                                 /\ Weight(m) \in Nat /\ Units(m) # {} /\ Units(m) \subseteq 0 .. CmdSize[o]
         /\ \A m, n \in MsgsOf(o) : m # n => Units(m) \cap Units(n) = {}
         /\ \A b \in 0 .. CmdSize[o] : \E m \in MsgsOf(o) : b \in Units(m)
<1>1. CmdSize[o] \in Nat /\ CmdSize[o] > 0
  BY PutThenAmAssumption
<1>2. ASSUME NEW m \in MsgsOf(o)
      PROVE  m.op = o /\ (m.kind = "payload" \/ (m.kind = "cmd" /\ m.off \in Offsets(o)))
  BY MsgFacts
<1>3. ASSUME NEW m \in MsgsOf(o), m.kind = "payload"
      PROVE  /\ Units(m) = {CmdSize[o]} /\ Weight(m) = 1
             /\ IsFiniteSet(Units(m)) /\ Cardinality(Units(m)) = 1
  BY <1>2, <1>3, FS_Singleton DEF Units, Weight
<1>4. ASSUME NEW m \in MsgsOf(o), m.kind = "cmd"
      PROVE  /\ Units(m) = m.off .. m.off + PartSize(o, m.off) - 1
             /\ Weight(m) = PartSize(o, m.off)
             /\ m.off \in Nat /\ Weight(m) \in Nat /\ Weight(m) > 0
             /\ m.off + Weight(m) <= CmdSize[o]
  BY <1>2, <1>4, PartFacts DEF Units, PartBytes, Weight
<1>5. ASSUME NEW m \in MsgsOf(o), m.kind = "cmd"
      PROVE  IsFiniteSet(Units(m)) /\ Cardinality(Units(m)) = Weight(m)
  <2>1. PICK i \in Int, j \in Int : i = m.off /\ j = m.off + Weight(m) - 1 /\ i <= j
    BY <1>4, <1>5
  <2>2. Units(m) = i .. j
    BY <1>4, <1>5, <2>1
  <2>3. IsFiniteSet(i .. j) /\ Cardinality(i .. j) = IF i > j THEN 0 ELSE j - i + 1
    BY FS_Interval
  <2>4. ~(i > j)
    BY <2>1
  <2>5. QED
    BY <1>4, <1>5, <2>1, <2>2, <2>3, <2>4
<1>6. ASSUME NEW m \in MsgsOf(o)
      PROVE  Units(m) # {} /\ Units(m) \subseteq 0 .. CmdSize[o] /\ Weight(m) \in Nat
  <2>1. CASE m.kind = "payload"
    BY <1>1, <1>3, <2>1
  <2>2. CASE m.kind = "cmd"
    <3>1. m.off \in Units(m)
      BY <1>4, <2>2
    <3>2. Units(m) \subseteq 0 .. CmdSize[o]
      BY <1>1, <1>4, <2>2
    <3>3. QED
      BY <1>4, <2>2, <3>1, <3>2
  <2>3. QED
    BY <1>2, <2>1, <2>2
<1>7. ASSUME NEW m \in MsgsOf(o), NEW n \in MsgsOf(o), m # n, NEW b \in Units(m), b \in Units(n)
      PROVE  FALSE
  <2>1. CASE m.kind = "payload" /\ n.kind = "payload"
    BY <1>7, <2>1, MsgsKnown
  <2>2. CASE m.kind = "payload" /\ n.kind = "cmd"
    BY <1>1, <1>3, <1>4, <1>7, <2>2
  <2>3. CASE m.kind = "cmd" /\ n.kind = "payload"
    BY <1>1, <1>3, <1>4, <1>7, <2>3
  <2>4. CASE m.kind = "cmd" /\ n.kind = "cmd"
    <3>1. m.off # n.off
      BY <1>7, <2>4, MsgsKnown
    <3>2. m.off \in Offsets(o) /\ n.off \in Offsets(o)
      BY <1>2, <2>4
    <3>3. /\ m.off <= b /\ b < m.off + PartSize(o, m.off) /\ b \in Int
          /\ n.off <= b /\ b < n.off + PartSize(o, n.off)
      BY <1>4, <1>7, <2>4
    <3>4. CASE m.off < n.off
      BY <1>4, <2>4, <3>2, <3>3, <3>4, PartsApart
    <3>5. CASE n.off < m.off
      BY <1>4, <2>4, <3>2, <3>3, <3>5, PartsApart
    <3>6. QED
      BY <1>4, <2>4, <3>1, <3>4, <3>5
  <2>5. QED
    BY <1>2, <2>1, <2>2, <2>3, <2>4
<1>8. ASSUME NEW b \in 0 .. CmdSize[o]
      PROVE  \E m \in MsgsOf(o) : b \in Units(m)
  <2>1. CASE b = CmdSize[o]
    <3>1. PICK m \in MsgsOf(o) : m = [op |-> o, kind |-> "payload", off |-> 0]
      BY MsgsKnown
    <3>2. QED
      BY <1>3, <2>1, <3>1
  <2>2. CASE b < CmdSize[o]
    <3>1. PICK n \in Offsets(o) : n <= b /\ b < n + PartSize(o, n)
      BY <1>1, <2>2, PartsCover
    <3>2. PICK m \in MsgsOf(o) : m = [op |-> o, kind |-> "cmd", off |-> n]
      BY MsgsKnown
    <3>3. b \in Units(m)
      BY <1>1, <1>4, <3>1, <3>2, PartFacts
    <3>4. QED
      BY <3>3
  <2>3. QED
    BY <1>1, <2>1, <2>2
<1>9. QED
  BY <1>2, <1>3, <1>5, <1>6, <1>7, <1>8

\* Counting one more message adds its weight, and the total is reached
\* exactly when all messages have been counted.
LEMMA CreditsAdd ==
  ASSUME NEW o \in Ops \ Packed, NEW C \in SUBSET MsgsOf(o)
  PROVE  /\ Credits(C) \in Nat /\ Credits(C) <= Total(o)
         /\ Credits(C) = Total(o) <=> C = MsgsOf(o)
         /\ \A m \in MsgsOf(o) \ C : Credits(C \cup {m}) = Credits(C) + Weight(m)
<1> DEFINE U(D) == UNION {Units(m) : m \in D}
           W == 0 .. CmdSize[o]
<1>1. CmdSize[o] \in Nat /\ CmdSize[o] > 0
  BY PutThenAmAssumption
<1>2. IsFiniteSet(W) /\ Cardinality(W) = CmdSize[o] + 1
  BY <1>1, FS_Interval
<1>3. Total(o) = Cardinality(W) /\ Total(o) \in Nat
  BY <1>1, <1>2 DEF Total
<1>4. U(C) \subseteq W
  BY UnitFacts
<1> HIDE DEF W
<1>5. IsFiniteSet(U(C)) /\ Cardinality(U(C)) \in Nat /\ Cardinality(U(C)) <= Cardinality(W)
  BY <1>2, <1>4, FS_Subset, FS_CardinalityType
<1>6. Cardinality(U(C)) = Cardinality(W) <=> U(C) = W
  BY <1>2, <1>4, FS_Subset
<1>7. U(C) = W <=> C = MsgsOf(o)
  <2>1. ASSUME C = MsgsOf(o)
        PROVE  W \subseteq U(C)
    BY <2>1, UnitFacts DEF W
  <2>2. ASSUME U(C) = W, NEW m \in MsgsOf(o)
        PROVE  m \in C
    <3>1. PICK b \in W : b \in Units(m)
      BY UnitFacts DEF W
    <3>2. PICK n \in C : b \in Units(n)
      BY <2>2, <3>1
    <3>3. n = m
      BY <3>1, <3>2, UnitFacts
    <3>4. QED
      BY <3>2, <3>3
  <2>3. QED
    BY <1>4, <2>1, <2>2
<1>8. ASSUME NEW m \in MsgsOf(o) \ C
      PROVE  Cardinality(U(C \cup {m})) = Cardinality(U(C)) + Weight(m)
  <2>1. U(C \cup {m}) = U(C) \cup Units(m)
    OBVIOUS
  <2>2. U(C) \cap Units(m) = {}
    BY UnitFacts
  <2>3. IsFiniteSet(Units(m)) /\ Cardinality(Units(m)) = Weight(m) /\ Weight(m) \in Nat
    BY UnitFacts
  <2> HIDE DEF U
  <2>4. Cardinality(U(C) \cup Units(m))
          = Cardinality(U(C)) + Cardinality(Units(m)) - Cardinality(U(C) \cap Units(m))
    BY <1>5, <2>3, FS_Union
  <2>5. Cardinality(U(C) \cap Units(m)) = 0
    BY <2>2, FS_EmptySet
  <2>6. Cardinality(U(C \cup {m})) = Cardinality(U(C) \cup Units(m))
    BY <2>1
  <2>7. QED
    BY <1>5, <2>3, <2>4, <2>5, <2>6
<1>9. \A D : Credits(D) = Cardinality(U(D))
  BY DEF Credits
<1> HIDE DEF U
<1>10. QED
  BY <1>3, <1>5, <1>6, <1>7, <1>8, <1>9

\* A message is the last one counted exactly when its weight completes the total.
LEMMA CreditsLast ==
  ASSUME NEW o \in Ops \ Packed, NEW C \in SUBSET MsgsOf(o), NEW m \in MsgsOf(o) \ C
  PROVE  Credits(C) + Weight(m) = Total(o) <=> \A n \in MsgsOf(o) : n = m \/ n \in C
<1>1. C \cup {m} \in SUBSET MsgsOf(o) /\ Credits(C \cup {m}) = Credits(C) + Weight(m)
  BY CreditsAdd
<1>2. Credits(C \cup {m}) = Total(o) <=> C \cup {m} = MsgsOf(o)
  BY <1>1, CreditsAdd
<1>3. QED
  BY <1>1, <1>2

LEMMA CreditsEmpty == Credits({}) = 0
BY FS_EmptySet DEF Credits

LEMMA KeyFacts ==
  ASSUME TypeOK, NEW o \in Ops, NEW p \in Ops, nonce[o] # Nil, nonce[p] # Nil
  PROVE  /\ Key(o) \in Keys
         /\ Key(o) = Key(p) <=> SrcRank[o] = SrcRank[p] /\ nonce[o] = nonce[p]
<1>1. /\ nonce[o] \in 0 .. NonceMod - 1 /\ SrcRank[o] \in 0 .. RankMod - 1
      /\ nonce[p] \in 0 .. NonceMod - 1 /\ SrcRank[p] \in 0 .. RankMod - 1
      /\ RankMod \in Nat /\ NonceMod \in Nat
  BY PutThenAmAssumption DEF TypeOK
<1>2. QED
  BY <1>1 DEF Key, Keys

-----------------------------------------------------------------------------
(* What a step leaves alone                                                *)

\* A handler step does not concern the calling threads.
LEMMA SenderKeeps ==
  ASSUME PutInv, UNCHANGED senderVars, NEW m \in Msgs, pc[m] \notin {"unsent", "done"},
         NEW c, c # "unsent", pc' = [pc EXCEPT ![m] = c]
  PROVE  SenderOK' /\ NoncesOK'
<1>1. TypeOK /\ SenderOK /\ NoncesOK
  BY DEF PutInv
<1>2. \A n \in Msgs : pc'[n] = IF n = m THEN c ELSE pc[n]
  BY <1>1 DEF TypeOK
<1>3. SenderOK'
  BY <1>1, <1>2, MsgFacts DEF SenderOK, senderVars
<1>4. \A o \in Ops : Over(o) => Over(o)'
  BY <1>2, MsgFacts DEF Over
<1>5. QED
  BY <1>1, <1>3, <1>4 DEF NoncesOK, senderVars

\* A step that moves no message past a point the state of a command knows of.
LEMMA StatesKeep ==
  ASSUME PutInv, UNCHANGED <<mem, inbox, ran, ptr>>,
         \A n \in Msgs : /\ Looked(n)' <=> Looked(n)
                         /\ Copied(n)' <=> Copied(n)
                         /\ Counted(n)' <=> Counted(n)
                         /\ pc'[n] \in {"reply", "done"} <=> pc[n] \in {"reply", "done"}
  PROVE  StatesOK'
<1>1. StatesOK
  BY DEF PutInv
<1>2. \A o \in Ops : Handed(o)' <=> Handed(o)
  BY MsgFacts DEF Handed
<1>3. \A o \in Ops, a \in Addrs : Holds(o, a)' <=> Holds(o, a)
  BY MsgFacts DEF Holds
<1>4. ASSUME NEW o \in Ops, NEW a \in Addrs, StateOf(o, mem[a])
      PROVE  StateOf(o, mem[a])'
  <2>1. {m \in MsgsOf(o) : Counted(m)'} = {m \in MsgsOf(o) : Counted(m)}
    BY MsgFacts
  <2>2. \A b : (\E m \in MsgsOf(o) : Copied(m)' /\ b \in PartBytes(m))
               <=> (\E m \in MsgsOf(o) : Copied(m) /\ b \in PartBytes(m))
    BY MsgFacts
  <2>3. (\E m \in MsgsOf(o) : m.kind = "payload" /\ Looked(m)')
        <=> (\E m \in MsgsOf(o) : m.kind = "payload" /\ Looked(m))
    BY MsgFacts
  <2>4. QED
    BY <1>4, <2>1, <2>2, <2>3 DEF StateOf
<1>5. QED
  BY <1>1, <1>2, <1>3, <1>4 DEF StatesOK

LEMMA TableKeep ==
  ASSUME PutInv, UNCHANGED <<table, nonce, ptr>>,
         \A n \in Msgs : Looked(n)' <=> Looked(n),
         \A n \in Msgs : n.kind # "packed" => (Pending(n)' <=> Pending(n))
  PROVE  TableOK'
<1>1. TableOK
  BY DEF PutInv
<1>2. \A o \in Ops : Entered(o)' <=> Entered(o)
  BY MsgFacts DEF Entered
<1>3. \A o \in Ops : Key(o)' = Key(o)
  BY DEF Key
<1>4. QED
  BY <1>1, <1>2, <1>3, MsgFacts DEF TableOK

LEMMA RepliesKeep ==
  ASSUME PutInv, UNCHANGED replyVars, \A o \in Ops : Over(o)' <=> Over(o)
  PROVE  RepliesOK'
BY DEF PutInv, RepliesOK, replyVars

\* A step that concerns the command of one put, whose state is at a after it,
\* and was there or nowhere before.
LEMMA StatesStep ==
  ASSUME PutInv, NEW o \in Ops, NEW a \in Addrs, ran' = ran, ran[o] = 0,
         \A n \in Msgs : n.op # o => pc'[n] = pc[n] /\ ptr'[n] = ptr[n],
         \A b \in Addrs : b # a => mem'[b] = mem[b] /\ inbox'[b] = inbox[b],
         Holds(o, a) \/ \A p \in Ops : ~Holds(p, a),
         \A n \in MsgsOf(o) : Looked(n) => ptr[n] = a,
         Holds(o, a)', \A n \in MsgsOf(o) : Looked(n)' => ptr'[n] = a,
         StateOf(o, mem[a])', inbox'[a] = IF Handed(o)' THEN 1 ELSE 0
  PROVE  StatesOK'
<1>1. StatesOK
  BY DEF PutInv
<1>2. \A p \in Ops : p # o => (Handed(p)' <=> Handed(p))
  BY MsgFacts DEF Handed
<1>3. \A p \in Ops : p # o => \A b \in Addrs : (Holds(p, b)' <=> Holds(p, b))
  BY MsgFacts DEF Holds, Looked
<1>4. ASSUME NEW p \in Ops, p # o, NEW b \in Addrs, b # a, StateOf(p, mem[b])
      PROVE  StateOf(p, mem[b])'
  <2>1. \A m \in MsgsOf(p) : pc'[m] = pc[m] /\ m.op = p
    BY <1>4, MsgFacts
  <2>2. {m \in MsgsOf(p) : Counted(m)'} = {m \in MsgsOf(p) : Counted(m)}
    BY <2>1 DEF Counted
  <2>3. \A x : (\E m \in MsgsOf(p) : Copied(m)' /\ x \in PartBytes(m))
               <=> (\E m \in MsgsOf(p) : Copied(m) /\ x \in PartBytes(m))
    BY <2>1 DEF Copied
  <2>4. (\E m \in MsgsOf(p) : m.kind = "payload" /\ Looked(m)')
        <=> (\E m \in MsgsOf(p) : m.kind = "payload" /\ Looked(m))
    BY <2>1 DEF Looked
  <2>5. QED
    BY <1>4, <2>2, <2>3, <2>4, ZenonT(60) DEF StateOf
<1>5. \A b \in Addrs : b # a => ~Holds(o, b) /\ ~Holds(o, b)'
  BY DEF Holds
<1>6. \A p \in Ops : p # o => ~Holds(p, a)
  BY <1>1 DEF StatesOK
<1>7. ASSUME NEW b \in Addrs
      PROVE  /\ \A p, q \in Ops : Holds(p, b)' /\ Holds(q, b)' => p = q
             /\ \A p \in Ops : Holds(p, b)' => /\ StateOf(p, mem[b])'
                                               /\ inbox'[b] = IF Handed(p)' THEN 1 ELSE 0
             /\ (\A p \in Ops : ~Holds(p, b)') => mem'[b] = Free /\ inbox'[b] = 0
  <2>1. CASE b = a
    BY <1>3, <1>6, <2>1
  <2>2. CASE b # a
    BY <1>1, <1>2, <1>3, <1>4, <1>5, <2>2 DEF StatesOK
  <2>3. QED
    BY <2>1, <2>2
<1>8. \A p \in Ops : ran'[p] \in {0, 1} /\ (ran'[p] = 1 => Handed(p)')
  BY <1>1, <1>2 DEF StatesOK
<1>9. Free' = Free
  BY DEF Free
<1>10. QED
  BY <1>7, <1>8, <1>9 DEF StatesOK

\* A step that sets the entry of one put.
LEMMA TableStep ==
  ASSUME PutInv, NEW o \in Ops \ Packed, nonce[o] # Nil, ~Over(o), nonce' = nonce,
         NEW v \in Addrs \cup {Nil}, table' = [table EXCEPT ![Key(o)] = v],
         \A n \in Msgs : n.op # o => pc'[n] = pc[n] /\ ptr'[n] = ptr[n] /\ opt'[n] = opt[n],
         \/ v = Nil /\ ~Entered(o)'
         \/ v # Nil /\ Entered(o)' /\ \A n \in MsgsOf(o) : Looked(n)' => ptr'[n] = v
  PROVE  TableOK'
<1>1. TypeOK /\ NoncesOK /\ TableOK
  BY DEF PutInv
<1>2. \A p \in Ops : Key(p)' = Key(p)
  BY DEF Key
<1>3. \A p \in Ops : p # o => (Entered(p)' <=> Entered(p))
  BY MsgFacts DEF Entered, Looked, Pending
<1>4. \A p \in Ops : Entered(p) => ~Over(p)
  BY DEF Entered, Over, Pending
<1>5. ASSUME NEW p \in Ops, p # o, nonce[p] # Nil, Entered(p)
      PROVE  Key(p) # Key(o)
  BY <1>1, <1>4, <1>5, KeyFacts DEF NoncesOK
<1>6. Key(o) \in Keys
  BY <1>1, KeyFacts
<1>7. \A k \in Keys : table'[k] = IF k = Key(o) THEN v ELSE table[k]
  BY <1>1, <1>6 DEF TypeOK
<1>8. ASSUME NEW k \in Keys, table'[k] # Nil
      PROVE  \E p \in Ops : nonce'[p] # Nil /\ Key(p)' = k /\ Entered(p)'
  <2>1. CASE k = Key(o)
    BY <1>2, <1>7, <1>8, <2>1
  <2>2. CASE k # Key(o)
    <3>1. PICK p \in Ops : nonce[p] # Nil /\ Key(p) = k /\ Entered(p)
      BY <1>1, <1>7, <1>8, <2>2 DEF TableOK
    <3>2. p # o
      BY <2>2, <3>1
    <3>3. QED
      BY <1>2, <1>3, <3>1, <3>2
  <2>3. QED
    BY <2>1, <2>2
<1>9. ASSUME NEW p \in Ops, Entered(p)', NEW n \in MsgsOf(p), Looked(n)'
      PROVE  table'[Key(p)'] = ptr'[n]
  <2>1. CASE p = o
    BY <1>2, <1>6, <1>7, <1>9, <2>1
  <2>2. CASE p # o
    <3>1. Entered(p) /\ n \in Msgs /\ n.op # o
      BY <1>3, <1>9, <2>2, MsgFacts
    <3>2. Looked(n) /\ ptr'[n] = ptr[n]
      BY <1>9, <3>1 DEF Looked
    <3>3. nonce[p] # Nil
      BY <1>9, <3>1, <3>2, MsgFacts DEF PutInv, SenderOK, Looked, Entered
    <3>4. Key(p) \in Keys /\ Key(p) # Key(o)
      BY <1>1, <1>5, <2>2, <3>1, <3>3, KeyFacts
    <3>5. table[Key(p)] = ptr[n]
      BY <1>1, <1>9, <3>1, <3>2 DEF TableOK
    <3>6. QED
      BY <1>2, <1>7, <3>2, <3>4, <3>5
  <2>3. QED
    BY <2>1, <2>2
<1>10. QED
  BY <1>8, <1>9 DEF TableOK, Keys

-----------------------------------------------------------------------------
(* The initial state and the calling threads                               *)

LEMMA PutInitially == Init => PutInv
<1> SUFFICES ASSUME Init
             PROVE  PutInv
  OBVIOUS
<1>1. \A m \in Msgs : pc[m] = "unsent" /\ ptr[m] = Nil
  BY DEF Init
<1>2. TypeOK
  <2>1. Free \in States
    BY DEF Free, Blank, States
  <2>2. mem \in [Addrs -> States]
    BY <2>1 DEF Init
  <2>3. QED
    BY <2>2 DEF Init, TypeOK
<1>3. ASSUME NEW o \in Ops
      PROVE  ~Over(o)
  <2>1. PICK m : m \in MsgsOf(o)
    BY MsgsKnown
  <2>2. QED
    BY <1>1, <2>1, MsgFacts DEF Over
<1>4. SenderOK /\ NoncesOK
  BY <1>1, MsgFacts DEF SenderOK, NoncesOK, Init
<1>5. HandlersOK
  BY <1>1, MsgFacts DEF HandlersOK, Looked, Init
<1>6. \A o \in Ops, a \in Addrs : ~Holds(o, a)
  BY <1>1, MsgFacts DEF Holds, Looked
<1>7. StatesOK
  BY <1>6 DEF StatesOK, Init
<1>8. \A o \in Ops : ~Entered(o)
  BY <1>1, MsgFacts DEF Entered, Looked
<1>9. TableOK
  BY <1>8 DEF TableOK, Init
<1>10. RepliesOK
  BY <1>3 DEF RepliesOK, Init
<1>11. QED
  BY <1>2, <1>4, <1>5, <1>7, <1>9, <1>10 DEF PutInv

\* Sending concerns none of the handlers.
LEMMA SendKeeps ==
  ASSUME PutInv, UNCHANGED <<body, ptr, opt, cb, holder, targetVars, replyVars>>,
         \A n \in Msgs : pc'[n] = pc[n] \/ (pc[n] = "unsent" /\ pc'[n] = "flight"),
         \A o \in Ops : \/ nonce'[o] = nonce[o]
                        \/ \A n \in MsgsOf(o) : pc[n] = "unsent"
  PROVE  HandlersOK' /\ StatesOK' /\ TableOK' /\ RepliesOK' /\ \A o \in Ops : Over(o)' <=> Over(o)
<1>1. \A n \in Msgs : /\ Looked(n)' <=> Looked(n)
                      /\ Copied(n)' <=> Copied(n)
                      /\ Counted(n)' <=> Counted(n)
                      /\ Pending(n)' <=> Pending(n)
                      /\ pc'[n] \in {"reply", "done"} <=> pc[n] \in {"reply", "done"}
                      /\ pc'[n] = "done" <=> pc[n] = "done"
  BY DEF Looked, Copied, Counted, Pending
<1>2. HandlersOK'
  BY <1>1, MsgFacts DEF PutInv, HandlersOK, Looked, TypeOK, Answer
<1>3. StatesOK'
  BY <1>1, StatesKeep DEF targetVars
<1>4. \A o \in Ops : Entered(o)' <=> Entered(o)
  BY <1>1, MsgFacts DEF Entered
<1>5. \A o \in Ops : Entered(o) => nonce'[o] = nonce[o] /\ Key(o)' = Key(o)
  BY MsgFacts DEF Entered, Looked, Key
<1>6. TableOK'
  BY <1>1, <1>4, <1>5, MsgFacts DEF PutInv, TableOK, targetVars
<1>7. \A o \in Ops : Over(o)' <=> Over(o)
  BY <1>1, MsgFacts DEF Over
<1>8. QED
  BY <1>2, <1>3, <1>6, <1>7, RepliesKeep

LEMMA PutBegins ==
  ASSUME PutInv, NEW o \in Ops, PutPrefix(o) \/ SkipPrefix(o)
  PROVE  PutInv'
<1>1. /\ caller[o] = "idle" /\ caller' = [caller EXCEPT ![o] = "request"]
      /\ prefix' = prefix \cup {o} \/ (o \notin Long /\ prefix' = prefix)
      /\ UNCHANGED <<bumper, nonce, body, handlerVars, targetVars, replyVars>>
  BY DEF PutPrefix, SkipPrefix, MayBegin
<1>2. UNCHANGED <<pc, ptr, opt, cb, holder>>
  BY <1>1 DEF handlerVars
<1>3. HandlersOK' /\ StatesOK' /\ TableOK' /\ RepliesOK' /\ \A p \in Ops : Over(p)' <=> Over(p)
  BY <1>1, <1>2, SendKeeps
<1>4. TypeOK'
  BY <1>1 DEF PutInv, TypeOK, handlerVars, targetVars, replyVars
<1>5. SenderOK'
  BY <1>1, <1>2 DEF PutInv, SenderOK, TypeOK
<1>6. NoncesOK'
  BY <1>1, <1>3 DEF PutInv, NoncesOK
<1>7. QED
  BY <1>3, <1>4, <1>5, <1>6 DEF PutInv

LEMMA PutSendPacked ==
  ASSUME PutInv, NEW o \in Ops, SendPacked(o)
  PROVE  PutInv'
<1>0. PICK m : m = [op |-> o, kind |-> "packed", off |-> 0]
  OBVIOUS
<1>1. /\ caller[o] = "request" /\ o \in Packed /\ pc' = [pc EXCEPT ![m] = "flight"]
      /\ \E c \in Outcomes(o) : caller' = [caller EXCEPT ![o] = c]
      /\ UNCHANGED <<bumper, nonce, prefix, body, ptr, opt, cb, holder, targetVars, replyVars>>
  BY <1>0 DEF SendPacked
<1>2. PICK c \in {"src_now", "src_cb"} : caller' = [caller EXCEPT ![o] = c]
  BY <1>1 DEF Outcomes
<1>3. MsgsOf(o) = {m} /\ m \in Msgs /\ m.op = o /\ pc[m] = "unsent"
  <2>1. MsgsOf(o) = {m}
    BY <1>0, <1>1, MsgsKnown
  <2>2. QED
    BY <1>1, <2>1, MsgFacts DEF PutInv, SenderOK
<1>4. \A n \in Msgs : pc'[n] = IF n = m THEN "flight" ELSE pc[n]
  BY <1>1 DEF PutInv, TypeOK
<1>5. HandlersOK' /\ StatesOK' /\ TableOK' /\ RepliesOK' /\ \A p \in Ops : Over(p)' <=> Over(p)
  BY <1>1, <1>3, <1>4, SendKeeps
<1>6. TypeOK'
  BY <1>1, <1>2 DEF PutInv, TypeOK, targetVars, replyVars
<1>7. SenderOK'
  BY <1>1, <1>2, <1>3, <1>4, MsgFacts DEF PutInv, SenderOK, TypeOK
<1>8. NoncesOK'
  BY <1>1, <1>5 DEF PutInv, NoncesOK
<1>9. QED
  BY <1>5, <1>6, <1>7, <1>8 DEF PutInv

LEMMA PutSendPayload ==
  ASSUME PutInv, NEW o \in Ops, SendPayload(o)
  PROVE  PutInv'
<1>0. PICK m : m = [op |-> o, kind |-> "payload", off |-> 0]
  OBVIOUS
<1>1. /\ caller[o] = "request" /\ o \notin Packed /\ NonceRetired(o)
      /\ nonce' = [nonce EXCEPT ![o] = bumper[SrcRank[o]]]
      /\ bumper' = [bumper EXCEPT ![SrcRank[o]] = (@ + 1) % NonceMod]
      /\ caller' = [caller EXCEPT ![o] = "parts"]
      /\ pc' = [pc EXCEPT ![m] = "flight"]
      /\ UNCHANGED <<prefix, body, ptr, opt, cb, holder, targetVars, replyVars>>
  BY <1>0 DEF SendPayload
<1>2. /\ m \in MsgsOf(o) /\ m \in Msgs /\ m.op = o /\ m.kind = "payload" /\ pc[m] = "unsent"
      /\ \A n \in MsgsOf(o) : pc[n] = "unsent" /\ (n = m \/ n.kind = "cmd")
  <2>1. m \in MsgsOf(o) /\ m.kind = "payload"
    BY <1>0, <1>1, MsgsKnown
  <2>2. \A n \in MsgsOf(o) : n = m \/ n.kind = "cmd"
    BY <1>1, <2>1, MsgsKnown, MsgFacts
  <2>3. QED
    BY <1>1, <2>1, <2>2, MsgFacts DEF PutInv, SenderOK
<1>3. \A n \in Msgs : pc'[n] = IF n = m THEN "flight" ELSE pc[n]
  BY <1>1 DEF PutInv, TypeOK
<1>4. SrcRank[o] \in Ranks /\ bumper[SrcRank[o]] \in 0 .. NonceMod - 1
  BY DEF PutInv, TypeOK, Ranks
<1>5. \A p \in Ops : nonce'[p] = IF p = o THEN bumper[SrcRank[o]] ELSE nonce[p]
  BY <1>1 DEF PutInv, TypeOK
<1>6. HandlersOK' /\ StatesOK' /\ TableOK' /\ RepliesOK' /\ \A p \in Ops : Over(p)' <=> Over(p)
  BY <1>1, <1>2, <1>3, <1>5, SendKeeps
<1>7. TypeOK'
  <2>1. bumper' \in [Ranks -> 0 .. NonceMod - 1]
    <3>1. (bumper[SrcRank[o]] + 1) % NonceMod \in 0 .. NonceMod - 1
      BY <1>4, PutThenAmAssumption
    <3>2. QED
      BY <1>1, <1>4, <3>1 DEF PutInv, TypeOK
  <2>2. QED
    BY <1>1, <1>4, <2>1 DEF PutInv, TypeOK, targetVars, replyVars
<1>8. SenderOK'
  <2>1. nonce'[o] # Nil
    BY <1>4, <1>5, PutThenAmAssumption
  <2>2. \A p \in Ops : caller'[p] = IF p = o THEN "parts" ELSE caller[p]
    BY <1>1 DEF PutInv, TypeOK
  <2>3. ASSUME NEW p \in Ops
        PROVE  /\ caller'[p] # "idle" /\ p \in Long => p \in prefix'
               /\ caller'[p] = "parts" => p \notin Packed
               /\ nonce'[p] # Nil <=> p \notin Packed /\ caller'[p] \notin {"idle", "request"}
    BY <1>1, <1>5, <2>1, <2>2 DEF PutInv, SenderOK
  <2>4. ASSUME NEW p \in Ops, NEW n \in MsgsOf(p)
        PROVE  /\ caller'[p] \in {"idle", "request"} => pc'[n] = "unsent"
               /\ caller'[p] = "parts" => n.kind = "cmd" \/ pc'[n] # "unsent"
               /\ caller'[p] \in {"src_now", "src_cb"} => pc'[n] # "unsent"
    BY <1>2, <1>3, <2>2, MsgFacts DEF PutInv, SenderOK
  <2>5. QED
    BY <2>3, <2>4 DEF SenderOK
<1>9. NoncesOK'
  <2>1. ASSUME NEW p \in Ops, p # o, SrcRank[p] = SrcRank[o], nonce'[p] = nonce'[o]
        PROVE  Over(p)'
    BY <1>1, <1>5, <1>6, <2>1 DEF NonceRetired, Over
  <2>2. QED
    BY <1>5, <1>6, <2>1 DEF PutInv, NoncesOK
<1>10. QED
  BY <1>6, <1>7, <1>8, <1>9 DEF PutInv

LEMMA PutSendCmdPart ==
  ASSUME PutInv, NEW o \in Ops, SendCmdPart(o)
  PROVE  PutInv'
<1>1. PICK m \in MsgsOf(o) :
        /\ m.kind = "cmd" /\ pc[m] = "unsent"
        /\ \A n \in Offsets(o) : n < m.off => pc[[m EXCEPT !.off = n]] # "unsent"
        /\ pc' = [pc EXCEPT ![m] = "flight"]
        /\ IF m.off + PartSize(o, m.off) < CmdSize[o]
           THEN caller' = caller
           ELSE \E c \in Outcomes(o) : caller' = [caller EXCEPT ![o] = c]
  BY DEF SendCmdPart
<1>2. /\ caller[o] = "parts"
      /\ UNCHANGED <<bumper, nonce, prefix, body, ptr, opt, cb, holder, targetVars, replyVars>>
  BY DEF SendCmdPart
<1>3. m \in Msgs /\ m.op = o /\ m.off \in Offsets(o) /\ o \notin Packed
  BY <1>1, MsgFacts
<1>4. \A n \in Msgs : pc'[n] = IF n = m THEN "flight" ELSE pc[n]
  BY <1>1 DEF PutInv, TypeOK
<1>5. HandlersOK' /\ StatesOK' /\ TableOK' /\ RepliesOK' /\ \A p \in Ops : Over(p)' <=> Over(p)
  BY <1>1, <1>2, <1>4, SendKeeps
<1>6. PICK c \in {"parts", "src_now", "src_cb"} :
        /\ caller' = [caller EXCEPT ![o] = c]
        /\ c # "parts" => ~(m.off + PartSize(o, m.off) < CmdSize[o])
  <2>1. CASE m.off + PartSize(o, m.off) < CmdSize[o]
    <3>1. caller' = [caller EXCEPT ![o] = "parts"]
      BY <1>1, <1>2, <2>1 DEF PutInv, TypeOK
    <3>2. QED
      BY <3>1
  <2>2. CASE ~(m.off + PartSize(o, m.off) < CmdSize[o])
    BY <1>1, <2>2 DEF Outcomes
  <2>3. QED
    BY <2>1, <2>2
<1>7. \A p \in Ops : caller'[p] = IF p = o THEN c ELSE caller[p]
  BY <1>6 DEF PutInv, TypeOK
<1>8. TypeOK'
  BY <1>1, <1>2, <1>6 DEF PutInv, TypeOK, targetVars, replyVars
<1>9. ASSUME NEW n \in MsgsOf(o), c # "parts"
      PROVE  pc'[n] # "unsent"
  <2>1. n \in Msgs /\ n.op = o /\ n.kind \in {"payload", "cmd"}
    BY <1>3, MsgFacts
  <2>2. CASE n.kind = "payload"
    BY <1>1, <1>2, <1>4, <2>1, <2>2 DEF PutInv, SenderOK
  <2>3. CASE n.kind = "cmd"
    <3>1. n.off \in Offsets(o) /\ n = [op |-> o, kind |-> "cmd", off |-> n.off]
          /\ m = [op |-> o, kind |-> "cmd", off |-> m.off]
      BY <1>1, <1>3, <2>1, <2>3, MsgFacts
    <3>2. CASE n.off < m.off
      <4>1. [m EXCEPT !.off = n.off] = n
        BY <3>1
      <4>2. QED
        BY <1>1, <1>4, <2>1, <3>1, <3>2, <4>1
    <3>3. CASE n.off = m.off
      BY <1>4, <2>1, <3>1, <3>3
    <3>4. CASE m.off < n.off
      BY <1>3, <1>6, <1>9, <3>1, <3>4, PartsApart, PartFacts
    <3>5. m.off \in Nat /\ n.off \in Nat
      BY <1>3, <3>1, PartFacts
    <3>6. QED
      BY <3>2, <3>3, <3>4, <3>5
  <2>4. QED
    BY <2>1, <2>2, <2>3
<1>10. SenderOK'
  <2>1. ASSUME NEW p \in Ops
        PROVE  /\ caller'[p] # "idle" /\ p \in Long => p \in prefix'
               /\ caller'[p] = "parts" => p \notin Packed
               /\ nonce'[p] # Nil <=> p \notin Packed /\ caller'[p] \notin {"idle", "request"}
    BY <1>2, <1>3, <1>7 DEF PutInv, SenderOK
  <2>2. ASSUME NEW p \in Ops, NEW n \in MsgsOf(p)
        PROVE  /\ caller'[p] \in {"idle", "request"} => pc'[n] = "unsent"
               /\ caller'[p] = "parts" => n.kind = "cmd" \/ pc'[n] # "unsent"
               /\ caller'[p] \in {"src_now", "src_cb"} => pc'[n] # "unsent"
    <3>1. n \in Msgs /\ n.op = p
      BY MsgFacts
    <3>2. CASE p = o
      BY <1>1, <1>2, <1>4, <1>7, <1>9, <3>1, <3>2 DEF PutInv, SenderOK
    <3>3. CASE p # o
      BY <1>3, <1>4, <1>7, <3>1, <3>3 DEF PutInv, SenderOK
    <3>4. QED
      BY <3>2, <3>3
  <2>3. QED
    BY <2>1, <2>2 DEF SenderOK
<1>11. NoncesOK'
  BY <1>2, <1>5 DEF PutInv, NoncesOK
<1>12. QED
  BY <1>5, <1>8, <1>10, <1>11 DEF PutInv

-----------------------------------------------------------------------------
(* The handlers                                                            *)

\* A handler's message, and the state it works on.
LEMMA HandlerFacts ==
  ASSUME PutInv, NEW m \in Msgs, pc[m] \notin {"unsent", "reply", "done"}
  PROVE  /\ m.op \in Ops /\ m \in MsgsOf(m.op) /\ ~Over(m.op) /\ ~Handed(m.op)
         /\ ran[m.op] = 0 /\ (m.op \notin Packed <=> nonce[m.op] # Nil)
         /\ Looked(m) => /\ ptr[m] \in Addrs /\ Holds(m.op, ptr[m])
                         /\ StateOf(m.op, mem[ptr[m]]) /\ inbox[ptr[m]] = 0
         /\ \A n \in MsgsOf(m.op) : n \in Msgs /\ n.op = m.op
<1>1. /\ m.op \in Ops /\ m \in MsgsOf(m.op)
      /\ \A n \in MsgsOf(m.op) : n \in Msgs /\ n.op = m.op
  BY MsgFacts
<1>2. ~Over(m.op) /\ ~Handed(m.op)
  BY <1>1 DEF Over, Handed
<1>3. ran[m.op] = 0
  BY <1>1, <1>2 DEF PutInv, StatesOK
<1>4. m.op \notin Packed <=> nonce[m.op] # Nil
  BY <1>1 DEF PutInv, SenderOK
<1>5. ASSUME Looked(m)
      PROVE  ptr[m] \in Addrs /\ Holds(m.op, ptr[m])
  BY <1>1, <1>3, <1>5 DEF PutInv, TypeOK, HandlersOK, Looked, Holds
<1>6. ASSUME Looked(m)
      PROVE  StateOf(m.op, mem[ptr[m]]) /\ inbox[ptr[m]] = 0
  BY <1>1, <1>2, <1>5, <1>6 DEF PutInv, StatesOK
<1>7. QED
  BY <1>1, <1>2, <1>3, <1>4, <1>5, <1>6

\* When all the others have been counted, their handlers are over.
LEMMA LastOne ==
  ASSUME PutInv, NEW m \in Msgs, pc[m] # "done",
         NEW n \in MsgsOf(m.op), n # m
  PROVE  /\ Counted(n) => pc[n] = "done"
         /\ ~Counted(n) => Pending(n)
<1>1. /\ m.op \in Ops /\ m \in MsgsOf(m.op) /\ n \in Msgs /\ n.op = m.op
      /\ pc[n] \in {"unsent", "flight", "locked", "copy", "credit", "erase",
                    "complete", "enqueue", "reply", "done"}
  BY MsgFacts DEF PutInv, TypeOK
<1>2. \/ pc[n] \in {"erase", "complete", "enqueue", "reply"}
      \/ pc[n] \in {"copy", "credit"} /\ opt[n]
      => FALSE
  BY <1>1 DEF PutInv, HandlersOK
<1>3. QED
  BY <1>1, <1>2 DEF Counted, Pending

\* What Lookup finds is the state of the command, or a free address for it.
LEMMA LookupFacts ==
  ASSUME PutInv, NEW m \in Msgs, m.kind # "packed", pc[m] = "flight", NEW a \in Addrs, Lookup(m, a)
  PROVE  /\ nonce[m.op] # Nil /\ Key(m.op) \in Keys /\ ran[m.op] = 0
         /\ \A n \in MsgsOf(m.op) : Looked(n) => ptr[n] = a
         /\ Holds(m.op, a) \/ \A p \in Ops : ~Holds(p, a)
         /\ StateOf(m.op, Found(m, a)) /\ inbox[a] = 0
         /\ Found(m, a) \in States
<1>0. PICK o \in Ops : o = m.op
  BY MsgFacts
<1>1. o \notin Packed /\ nonce[o] # Nil /\ ran[o] = 0 /\ ~Over(o) /\ m \in MsgsOf(o)
      /\ ~Handed(o) /\ \A n \in MsgsOf(o) : n \in Msgs /\ n.op = o
  BY <1>0, HandlerFacts, MsgFacts
<1>2. TypeOK /\ HandlersOK /\ StatesOK /\ TableOK /\ NoncesOK
  BY DEF PutInv
<1>3. Key(o) \in Keys
  BY <1>1, <1>2, KeyFacts
<1>4. mem[a] \in States
  BY <1>2 DEF TypeOK
<1>5. CASE \E n \in MsgsOf(o) : Looked(n)
  <2>1. PICK n \in MsgsOf(o) : Looked(n)
    BY <1>5
  <2>2. Entered(o)
    BY <1>1, <2>1 DEF Entered, Pending
  <2>3. table[Key(o)] = ptr[n] /\ ptr[n] # Nil
    BY <1>1, <1>2, <2>1, <2>2 DEF TableOK, HandlersOK, Looked
  <2>4. a = ptr[n] /\ Found(m, a) = mem[a]
    BY <1>0, <2>3 DEF Lookup, Found
  <2>5. \A k \in MsgsOf(o) : Looked(k) => ptr[k] = a
    BY <1>1, <1>2, <2>1, <2>4 DEF HandlersOK
  <2>6. Holds(o, a)
    BY <1>1, <2>1, <2>4 DEF Holds
  <2>7. StateOf(o, mem[a]) /\ inbox[a] = 0
    BY <1>1, <1>2, <2>6 DEF StatesOK
  <2>8. QED
    BY <1>0, <1>1, <1>3, <1>4, <2>4, <2>5, <2>6, <2>7
<1>6. CASE \A n \in MsgsOf(o) : ~Looked(n)
  <2>1. table[Key(o)] = Nil
    <3>1. SUFFICES ASSUME table[Key(o)] # Nil
                   PROVE  FALSE
      OBVIOUS
    <3>2. PICK p \in Ops : nonce[p] # Nil /\ Key(p) = Key(o) /\ Entered(p)
      BY <1>2, <1>3, <3>1 DEF TableOK
    <3>3. p # o
      BY <1>6, <3>2 DEF Entered
    <3>4. Over(p)
      BY <1>1, <1>2, <3>2, <3>3, KeyFacts DEF NoncesOK
    <3>5. QED
      BY <3>2, <3>4 DEF Entered, Over, Pending
  <2>2. ~mem[a].live /\ Found(m, a) = Fresh
    BY <1>0, <2>1 DEF Lookup, Found
  <2>3. \A p \in Ops : ~Holds(p, a)
    BY <1>2, <2>2 DEF StatesOK, StateOf
  <2>4. inbox[a] = 0
    BY <1>2, <2>3 DEF StatesOK
  <2>5. Fresh.live /\ Fresh.credits = 0 /\ Fresh.reply = Nil /\ ~Fresh.exec /\ Fresh.bytes = Blank
    BY DEF Fresh, Free
  <2>6. StateOf(o, Fresh)
    <3>1. {n \in MsgsOf(o) : Counted(n)} = {} /\ \A n \in MsgsOf(o) : ~Copied(n)
      BY <1>6 DEF Counted, Copied, Looked
    <3>2. Credits({n \in MsgsOf(o) : Counted(n)}) = 0
      BY <3>1, CreditsEmpty
    <3>3. \A b \in Bytes : Fresh.bytes[b] = Nil
      BY <2>5 DEF Blank
    <3>4. QED
      BY <1>6, <2>5, <3>1, <3>2, <3>3 DEF StateOf
  <2>7. Fresh \in States
    <3>1. Blank \in [Bytes -> Ops \cup {Nil}]
      BY DEF Blank
    <3>2. Free \in States
      BY <3>1 DEF Free, States
    <3>3. QED
      BY <3>2 DEF Fresh, States
  <2>8. QED
    BY <1>0, <1>1, <1>3, <1>6, <2>2, <2>3, <2>4, <2>6, <2>7
<1>7. QED
  BY <1>5, <1>6

\* What a message becomes, and that it alone moves.
LEMMA MoveFacts ==
  ASSUME PutInv, NEW m \in Msgs, NEW c, pc' = [pc EXCEPT ![m] = c]
  PROVE  \A n \in Msgs : pc'[n] = IF n = m THEN c ELSE pc[n]
BY DEF PutInv, TypeOK

LEMMA OverKeeps ==
  ASSUME PutInv, NEW m \in Msgs, pc[m] # "done", NEW c, pc' = [pc EXCEPT ![m] = c],
         c # "done" \/ \E n \in MsgsOf(m.op) : n # m /\ pc[n] # "done"
  PROVE  \A o \in Ops : Over(o)' <=> Over(o)
<1>1. \A n \in Msgs : pc'[n] = IF n = m THEN c ELSE pc[n]
  BY MoveFacts
<1>2. m.op \in Ops /\ ~Over(m.op) /\ ~Over(m.op)'
  BY <1>1, MsgFacts DEF Over
<1>3. \A o \in Ops : o # m.op => (Over(o)' <=> Over(o))
  BY <1>1, MsgFacts DEF Over
<1>4. QED
  BY <1>2, <1>3

\* The handler of m moves to c: what it must have established.
LEMMA HandlersStep ==
  ASSUME PutInv, NEW m \in Msgs, pc[m] \notin {"unsent", "done"},
         NEW c, c \notin {"unsent", "flight"}, pc' = [pc EXCEPT ![m] = c],
         \A n \in Msgs : n # m => ptr'[n] = ptr[n] /\ opt'[n] = opt[n] /\ cb'[n] = cb[n],
         ptr'[m] \in Addrs, \A n \in MsgsOf(m.op) : Looked(n) => ptr[n] = ptr'[m],
         \/ holder' = holder /\ pc[m] # "locked" /\ c # "locked"
         \/ holder = Nil /\ holder' = m /\ c = "locked" /\ m.kind = "payload"
         \/ holder = m /\ holder' = Nil /\ c # "locked",
         c \in {"copy", "credit", "erase", "complete"} => m.kind = "cmd",
         c \in {"locked", "enqueue", "reply"} => cb'[m] = Answer(m.op),
         \/ body' = body /\ (Looked(m) \/ m.kind = "cmd")
         \/ body' = body \cup {m.op} /\ m.kind # "cmd",
         c \in {"erase", "complete", "enqueue", "reply"} \/ (c \in {"copy", "credit"} /\ opt'[m])
           => \A n \in MsgsOf(m.op) : n = m \/ pc[n] = "done"
  PROVE  HandlersOK'
<1>1. HandlersOK /\ TypeOK
  BY DEF PutInv
<1>2. \A n \in Msgs : pc'[n] = IF n = m THEN c ELSE pc[n]
  BY <1>1 DEF TypeOK
<1>3. ptr'[m] # Nil /\ \A n \in Msgs : n # Nil
  BY PutThenAmAssumption, NilIsNoMessage
<1>4. holder' # Nil => pc'[holder'] = "locked"
  BY <1>1, <1>2 DEF HandlersOK, TypeOK
<1>5. ASSUME NEW n \in Msgs
      PROVE  /\ pc'[n] = "locked" => holder' = n /\ n.kind = "payload"
             /\ pc'[n] \in {"copy", "credit", "erase", "complete"} => n.kind = "cmd"
             /\ ptr'[n] = Nil <=> pc'[n] \in {"unsent", "flight"}
             /\ pc'[n] \in {"locked", "enqueue", "reply"} => cb'[n] = Answer(n.op)
  <2>1. CASE n = m
    BY <1>1, <1>2, <1>3, <2>1 DEF HandlersOK
  <2>2. CASE n # m
    BY <1>1, <1>2, <1>3, <2>2 DEF HandlersOK
  <2>3. QED
    BY <2>1, <2>2
<1>6. ASSUME NEW n \in Msgs, n.kind # "cmd"
      PROVE  n.op \in body' <=> Looked(n)'
  <2>1. CASE n = m
    BY <1>1, <1>2, <1>6, <2>1 DEF HandlersOK, Looked
  <2>2. CASE n # m
    <3>1. n.op \in body <=> Looked(n)
      BY <1>1, <1>6 DEF HandlersOK
    <3>2. Looked(n)' <=> Looked(n)
      BY <1>2, <2>2 DEF Looked
    <3>3. m.kind = "cmd" \/ m.op # n.op
      <4>1. SUFFICES ASSUME m.kind # "cmd", m.op = n.op
                     PROVE  FALSE
        OBVIOUS
      <4>2. m.kind = n.kind
        BY <1>6, <4>1, MsgFacts
      <4>3. QED
        BY <2>2, <4>1, <4>2, MsgFacts, MsgsKnown
    <3>4. QED
      BY <3>1, <3>2, <3>3
  <2>3. QED
    BY <2>1, <2>2
<1>7. ASSUME NEW n \in Msgs, NEW k \in MsgsOf(n.op)
      PROVE  /\ Looked(n)' /\ Looked(k)' => ptr'[n] = ptr'[k]
             /\ \/ pc'[n] \in {"erase", "complete", "enqueue", "reply"}
                \/ pc'[n] \in {"copy", "credit"} /\ opt'[n]
                => k = n \/ pc'[k] = "done"
  <2>1. k \in Msgs /\ k.op = n.op /\ n.op \in Ops /\ n \in MsgsOf(n.op) /\ m \in MsgsOf(m.op)
    BY MsgFacts
  <2>2. Looked(n)' /\ Looked(k)' => ptr'[n] = ptr'[k]
    BY <1>1, <1>2, <2>1 DEF HandlersOK, Looked
  <2>3. CASE n = m
    BY <1>2, <2>1, <2>2, <2>3
  <2>4. CASE n # m
    BY <1>1, <1>2, <2>1, <2>2, <2>4 DEF HandlersOK
  <2>5. QED
    BY <2>3, <2>4
<1>8. QED
  BY <1>4, <1>5, <1>6, <1>7 DEF HandlersOK, Answer

LEMMA PutPackedCmd ==
  ASSUME PutInv, NEW m \in Msgs, PackedCmd(m)
  PROVE  PutInv'
<1>0. PICK o \in Ops : o = m.op
  BY MsgFacts
<1>1. PICK a \in Addrs :
        /\ ~mem[a].live
        /\ mem' = [mem EXCEPT ![a] =
             [Fresh EXCEPT !.exec = TRUE,
                           !.bytes = [b \in Bytes |-> IF b < CmdSize[o] THEN o ELSE Nil]]]
        /\ ptr' = [ptr EXCEPT ![m] = a]
  BY <1>0 DEF PackedCmd
<1>2. /\ m.kind = "packed" /\ pc[m] = "flight" /\ body' = body \cup {o}
      /\ cb' = [cb EXCEPT ![m] = Answer(o)] /\ pc' = [pc EXCEPT ![m] = "enqueue"]
      /\ UNCHANGED <<senderVars, opt, holder, table, inbox, ran, replyVars>>
  BY <1>0 DEF PackedCmd
<1>3. o \in Packed /\ MsgsOf(o) = {m} /\ ran[o] = 0 /\ ~Looked(m)
  BY <1>0, <1>2, MsgFacts, MsgsKnown, HandlerFacts DEF Looked
<1>4. TypeOK /\ HandlersOK /\ StatesOK
  BY DEF PutInv
<1>5. \A n \in Msgs : pc'[n] = IF n = m THEN "enqueue" ELSE pc[n]
  BY <1>2, MoveFacts
<1>6. \A n \in Msgs : ptr'[n] = IF n = m THEN a ELSE ptr[n]
  BY <1>1, <1>4 DEF TypeOK
<1>7. \A n \in Msgs : cb'[n] = IF n = m THEN Answer(o) ELSE cb[n]
  BY <1>2, <1>4 DEF TypeOK
<1> DEFINE f == [b \in Bytes |-> IF b < CmdSize[o] THEN o ELSE Nil]
<1>8. f \in [Bytes -> Ops \cup {Nil}] /\ \A b \in Bytes : f[b] = IF b < CmdSize[o] THEN o ELSE Nil
  OBVIOUS
<1> HIDE DEF f
<1>9. PICK st : st = [Fresh EXCEPT !.exec = TRUE, !.bytes = f]
  OBVIOUS
<1>10. st.live /\ st.exec /\ st.bytes = f /\ st \in States
  <2>1. Blank \in [Bytes -> Ops \cup {Nil}]
    BY DEF Blank
  <2>2. Free \in States
    BY <2>1 DEF Free, States
  <2>3. Fresh \in States /\ Fresh.live
    BY <2>2 DEF Fresh, States
  <2>4. QED
    BY <1>8, <1>9, <2>3 DEF States
<1>11. mem' = [mem EXCEPT ![a] = st]
  BY <1>1, <1>9 DEF f
<1>12. mem'[a] = st /\ \A b \in Addrs : b # a => mem'[b] = mem[b]
  BY <1>4, <1>11 DEF TypeOK
<1>13. TypeOK'
  <2>1. Answer(o) \in Ops \cup {Nil}
    BY DEF Answer
  <2>2. mem' \in [Addrs -> States]
    BY <1>4, <1>10, <1>11 DEF TypeOK
  <2>3. QED
    BY <1>1, <1>2, <1>4, <2>1, <2>2 DEF TypeOK, senderVars, replyVars
<1>14. SenderOK' /\ NoncesOK'
  BY <1>2, SenderKeeps
<1>15. HandlersOK'
  <2>1. holder # m
    BY <1>2, <1>4, NilIsNoMessage DEF HandlersOK
  <2>2. \A n \in MsgsOf(m.op) : n = m
    BY <1>0, <1>3
  <2>3. QED
    BY <1>0, <1>2, <1>3, <1>6, <1>7, <2>1, <2>2, HandlersStep
<1>16. StatesOK'
  <2>1. \A p \in Ops : ~Holds(p, a)
    BY <1>1, <1>4 DEF StatesOK, StateOf
  <2>2. Holds(o, a)'
    BY <1>2, <1>3, <1>5, <1>6 DEF Holds, Looked
  <2>3. StateOf(o, mem[a])'
    <3>1. Copied(m)' /\ \A b \in Bytes : b \in PartBytes(m) <=> b < CmdSize[o]
      <4>1. PartBytes(m) = 0 .. CmdSize[o] - 1 /\ CmdSize[o] \in Nat
        BY <1>0, <1>2, PutThenAmAssumption DEF PartBytes
      <4>2. \A b \in Bytes : b \in Nat
        BY PutThenAmAssumption DEF Bytes
      <4>3. QED
        BY <1>5, <4>1, <4>2 DEF Copied
    <3>2. 0 \in PartBytes(m)
      BY <1>0, <1>2, PutThenAmAssumption DEF PartBytes
    <3>3. QED
      BY <1>3, <1>8, <1>10, <1>12, <3>1, <3>2 DEF StateOf
  <2>4. inbox'[a] = 0 /\ ~Handed(o)'
    BY <1>2, <1>3, <1>4, <1>5, <2>1 DEF StatesOK, Handed
  <2>5. \A n \in Msgs : n.op # o => pc'[n] = pc[n] /\ ptr'[n] = ptr[n]
    BY <1>0, <1>5, <1>6
  <2>6. QED
    BY <1>2, <1>3, <1>6, <1>12, <2>1, <2>2, <2>3, <2>4, <2>5, StatesStep
<1>17. TableOK'
  <2>1. \A p \in Ops : Entered(p)' <=> Entered(p)
    BY <1>2, <1>3, <1>5, MsgFacts DEF Entered, Looked, Pending
  <2>2. \A p \in Ops : Key(p)' = Key(p)
    BY <1>2 DEF Key, senderVars
  <2>3. \A p \in Ops, n \in Msgs : Entered(p) /\ n \in MsgsOf(p) => n # m
    BY <1>3, <1>0, MsgFacts DEF Entered
  <2>4. QED
    BY <1>2, <1>5, <1>6, <2>1, <2>2, <2>3, MsgFacts DEF PutInv, TableOK, Looked, senderVars
<1>18. RepliesOK'
  BY <1>2, OverKeeps, RepliesKeep
<1>19. QED
  BY <1>13, <1>14, <1>15, <1>16, <1>17, <1>18 DEF PutInv

\* A message that is found but not yet copied leaves what is known of the bytes and credits.
LEMMA LockedState ==
  ASSUME PutInv, NEW m \in Msgs, m.kind # "packed", pc[m] = "flight", NEW o \in Ops, o = m.op,
         NEW c \in {"locked", "copy"}, pc' = [pc EXCEPT ![m] = c],
         NEW old \in States, NEW new \in States, StateOf(o, old),
         new.live <=> old.live, new.credits = old.credits, new.exec <=> old.exec, new.bytes = old.bytes,
         new.reply = IF m.kind = "payload" THEN Answer(o) ELSE old.reply
  PROVE  StateOf(o, new)' /\ ~Handed(o)'
<1>1. \A n \in Msgs : pc'[n] = IF n = m THEN c ELSE pc[n]
  BY DEF PutInv, TypeOK
<1>2. o \notin Packed /\ m \in MsgsOf(o) /\ \A n \in MsgsOf(o) : n \in Msgs /\ n.op = o
  BY MsgFacts
<1>3. \A n \in MsgsOf(o) : (Counted(n)' <=> Counted(n)) /\ (Copied(n)' <=> Copied(n))
  BY <1>1, <1>2 DEF Counted, Copied
<1>4. {n \in MsgsOf(o) : Counted(n)'} = {n \in MsgsOf(o) : Counted(n)}
  BY <1>3
<1>5. new.credits = Credits({n \in MsgsOf(o) : Counted(n)'})
  BY <1>2, <1>4 DEF StateOf
<1>6. new.reply = IF \E n \in MsgsOf(o) : n.kind = "payload" /\ Looked(n)' THEN Answer(o) ELSE Nil
  <2>1. CASE m.kind = "payload"
    BY <1>1, <1>2, <2>1 DEF Looked
  <2>2. CASE m.kind # "payload"
    <3>1. \A n \in MsgsOf(o) : n.kind = "payload" => (Looked(n)' <=> Looked(n))
      BY <1>1, <1>2, <2>2 DEF Looked
    <3>2. QED
      BY <1>2, <2>2, <3>1 DEF StateOf
  <2>3. QED
    BY <2>1, <2>2
<1>7. /\ new.exec <=> \E n \in MsgsOf(o) : Copied(n)' /\ 0 \in PartBytes(n)
      /\ \A b \in Bytes : new.bytes[b] =
           IF \E n \in MsgsOf(o) : Copied(n)' /\ b \in PartBytes(n) THEN o ELSE Nil
  BY <1>3 DEF StateOf
<1>8. ~Handed(o)'
  BY <1>1, <1>2 DEF Handed
<1>9. QED
  BY <1>5, <1>6, <1>7, <1>8 DEF StateOf, Answer

LEMMA PutPayloadLock ==
  ASSUME PutInv, NEW m \in Msgs, PayloadLock(m)
  PROVE  PutInv'
<1>0. PICK o \in Ops : o = m.op
  BY MsgFacts
<1>1. PICK a \in Addrs :
        /\ Lookup(m, a)
        /\ table' = [table EXCEPT ![Key(o)] = a]
        /\ mem' = [mem EXCEPT ![a] = [Found(m, a) EXCEPT !.reply = Answer(o)]]
        /\ ptr' = [ptr EXCEPT ![m] = a]
  BY <1>0 DEF PayloadLock
<1>2. /\ m.kind = "payload" /\ pc[m] = "flight" /\ holder = Nil /\ holder' = m
      /\ body' = body \cup {o} /\ cb' = [cb EXCEPT ![m] = Answer(o)]
      /\ pc' = [pc EXCEPT ![m] = "locked"]
      /\ UNCHANGED <<senderVars, opt, inbox, ran, replyVars>>
  BY <1>0 DEF PayloadLock
<1>3. /\ nonce[o] # Nil /\ Key(o) \in Keys /\ ran[o] = 0
      /\ \A n \in MsgsOf(o) : Looked(n) => ptr[n] = a
      /\ Holds(o, a) \/ \A p \in Ops : ~Holds(p, a)
      /\ StateOf(o, Found(m, a)) /\ inbox[a] = 0
      /\ Found(m, a) \in States
  BY <1>0, <1>1, <1>2, LookupFacts
<1>4. TypeOK /\ HandlersOK
  BY DEF PutInv
<1>5. \A n \in Msgs : pc'[n] = IF n = m THEN "locked" ELSE pc[n]
  BY <1>2, <1>4 DEF TypeOK
<1>6. \A n \in Msgs : ptr'[n] = IF n = m THEN a ELSE ptr[n]
  BY <1>1, <1>4 DEF TypeOK
<1>7. \A n \in Msgs : cb'[n] = IF n = m THEN Answer(o) ELSE cb[n]
  BY <1>2, <1>4 DEF TypeOK
<1>8. Answer(o) \in Ops \cup {Nil}
  BY DEF Answer
<1>9. PICK st : st = [Found(m, a) EXCEPT !.reply = Answer(o)]
  OBVIOUS
<1>10. PICK old \in States : old = Found(m, a)
  BY <1>3
<1>11. /\ st \in States /\ (st.live <=> old.live) /\ st.credits = old.credits
       /\ (st.exec <=> old.exec) /\ st.bytes = old.bytes /\ st.reply = Answer(o)
  BY <1>8, <1>9, <1>10 DEF States
<1>12. mem' = [mem EXCEPT ![a] = st]
  BY <1>1, <1>9
<1>13. mem'[a] = st /\ \A b \in Addrs : b # a => mem'[b] = mem[b]
  BY <1>4, <1>12 DEF TypeOK
<1>14. TypeOK'
  <2>1. mem' \in [Addrs -> States]
    BY <1>4, <1>11, <1>12 DEF TypeOK
  <2>2. table' \in [Keys -> Addrs \cup {Nil}]
    BY <1>1, <1>4 DEF TypeOK
  <2>3. QED
    BY <1>1, <1>2, <1>4, <1>8, <2>1, <2>2 DEF TypeOK, senderVars, replyVars
<1>15. SenderOK' /\ NoncesOK'
  BY <1>2, SenderKeeps
<1>16. HandlersOK'
  BY <1>0, <1>2, <1>3, <1>6, <1>7, HandlersStep, ZenonT(60)
<1>17. o \in Ops \ Packed /\ m \in MsgsOf(o) /\ ~Over(o)
  BY <1>0, <1>2, HandlerFacts, MsgFacts
<1>18. \A n \in MsgsOf(o) : Looked(n)' => ptr'[n] = a
  BY <1>3, <1>5, <1>6, MsgFacts DEF Looked
<1>19. StatesOK'
  <2>1. Holds(o, a)'
    BY <1>2, <1>3, <1>5, <1>6, <1>17 DEF Holds, Looked
  <2>2. StateOf(o, mem[a])' /\ ~Handed(o)'
    <3>1. StateOf(o, old)
      BY <1>3, <1>10
    <3>2. StateOf(o, st)' /\ ~Handed(o)'
      BY <1>0, <1>2, <1>11, <3>1, LockedState
    <3>3. QED
      BY <1>13, <3>2 DEF StateOf
  <2>3. inbox'[a] = IF Handed(o)' THEN 1 ELSE 0
    BY <1>2, <1>3, <2>2
  <2>4. \A n \in Msgs : n.op # o => pc'[n] = pc[n] /\ ptr'[n] = ptr[n]
    BY <1>0, <1>5, <1>6
  <2>5. QED
    BY <1>2, <1>3, <1>13, <1>18, <2>1, <2>2, <2>3, <2>4, StatesStep
<1>20. TableOK'
  <2>1. Entered(o)'
    BY <1>5, <1>17 DEF Entered, Looked, Pending
  <2>2. \A n \in Msgs : n.op # o => pc'[n] = pc[n] /\ ptr'[n] = ptr[n] /\ opt'[n] = opt[n]
    BY <1>0, <1>2, <1>5, <1>6
  <2>3. a \in Addrs \cup {Nil} /\ a # Nil /\ nonce' = nonce
    BY <1>2, PutThenAmAssumption DEF senderVars
  <2>4. QED
    BY <1>1, <1>3, <1>17, <1>18, <2>1, <2>2, <2>3, TableStep
<1>21. RepliesOK'
  BY <1>2, OverKeeps, RepliesKeep
<1>22. QED
  BY <1>14, <1>15, <1>16, <1>19, <1>20, <1>21 DEF PutInv

LEMMA PutCmdLock ==
  ASSUME PutInv, NEW m \in Msgs, CmdLock(m)
  PROVE  PutInv'
<1>0. PICK o \in Ops : o = m.op
  BY MsgFacts
<1>1. PICK a \in Addrs, last \in BOOLEAN :
        /\ Lookup(m, a)
        /\ last <=> Found(m, a).credits + PartSize(o, m.off) = Total(o)
        /\ mem' = [mem EXCEPT ![a] = Found(m, a)]
        /\ table' = [table EXCEPT ![Key(o)] = IF last THEN Nil ELSE a]
        /\ opt' = [opt EXCEPT ![m] = last]
        /\ ptr' = [ptr EXCEPT ![m] = a]
  BY <1>0 DEF CmdLock
<1>2. /\ m.kind = "cmd" /\ pc[m] = "flight" /\ holder = Nil
      /\ pc' = [pc EXCEPT ![m] = "copy"]
      /\ UNCHANGED <<senderVars, body, cb, holder, inbox, ran, replyVars>>
  BY DEF CmdLock
<1>3. /\ nonce[o] # Nil /\ Key(o) \in Keys /\ ran[o] = 0
      /\ \A n \in MsgsOf(o) : Looked(n) => ptr[n] = a
      /\ Holds(o, a) \/ \A p \in Ops : ~Holds(p, a)
      /\ StateOf(o, Found(m, a)) /\ inbox[a] = 0
      /\ Found(m, a) \in States
  BY <1>0, <1>1, <1>2, LookupFacts
<1>4. TypeOK /\ HandlersOK
  BY DEF PutInv
<1>5. \A n \in Msgs : pc'[n] = IF n = m THEN "copy" ELSE pc[n]
  BY <1>2, <1>4 DEF TypeOK
<1>6. \A n \in Msgs : ptr'[n] = IF n = m THEN a ELSE ptr[n]
  BY <1>1, <1>4 DEF TypeOK
<1>7. \A n \in Msgs : opt'[n] = IF n = m THEN last ELSE opt[n]
  BY <1>1, <1>4 DEF TypeOK
<1>8. o \in Ops \ Packed /\ m \in MsgsOf(o) /\ ~Over(o)
  BY <1>0, <1>2, HandlerFacts, MsgFacts
<1>9. last => \A n \in MsgsOf(o) : n = m \/ pc[n] = "done"
  <2>1. PICK C \in SUBSET MsgsOf(o) : C = {n \in MsgsOf(o) : Counted(n)}
    OBVIOUS
  <2>2. m \notin C /\ Found(m, a).credits = Credits(C)
    BY <1>2, <1>3, <1>8, <2>1 DEF Counted, StateOf
  <2>3. Weight(m) = PartSize(o, m.off)
    BY <1>0, <1>2 DEF Weight
  <2>4. last => \A n \in MsgsOf(o) : n = m \/ n \in C
    BY <1>1, <1>8, <2>2, <2>3, CreditsLast
  <2>5. QED
    BY <1>0, <1>2, <2>1, <2>4, LastOne
<1>10. PICK st \in States : st = Found(m, a)
  BY <1>3
<1>11. mem'[a] = st /\ mem' \in [Addrs -> States] /\ \A b \in Addrs : b # a => mem'[b] = mem[b]
  BY <1>1, <1>4, <1>10 DEF TypeOK
<1>12. TypeOK'
  BY <1>1, <1>2, <1>4, <1>11 DEF TypeOK, senderVars, replyVars
<1>13. SenderOK' /\ NoncesOK'
  BY <1>2, SenderKeeps
<1>14. HandlersOK'
  BY <1>0, <1>2, <1>3, <1>6, <1>7, <1>9, HandlersStep
<1>15. \A n \in MsgsOf(o) : Looked(n)' => ptr'[n] = a
  BY <1>3, <1>5, <1>6, MsgFacts DEF Looked
<1>16. StatesOK'
  <2>1. Holds(o, a)'
    BY <1>2, <1>3, <1>5, <1>6, <1>8 DEF Holds, Looked
  <2>2. StateOf(o, mem[a])' /\ ~Handed(o)'
    <3>1. StateOf(o, st)
      BY <1>3, <1>10
    <3>2. StateOf(o, st)' /\ ~Handed(o)'
      BY <1>0, <1>2, <3>1, LockedState
    <3>3. QED
      BY <1>11, <3>2 DEF StateOf
  <2>3. inbox'[a] = IF Handed(o)' THEN 1 ELSE 0
    BY <1>2, <1>3, <2>2
  <2>4. \A n \in Msgs : n.op # o => pc'[n] = pc[n] /\ ptr'[n] = ptr[n]
    BY <1>0, <1>5, <1>6
  <2>5. QED
    BY <1>2, <1>3, <1>11, <1>15, <2>1, <2>2, <2>3, <2>4, StatesStep
<1>17. TableOK'
  <2>1. \A n \in Msgs : n.op # o => pc'[n] = pc[n] /\ ptr'[n] = ptr[n] /\ opt'[n] = opt[n]
    BY <1>0, <1>5, <1>6, <1>7
  <2>2. a # Nil /\ nonce' = nonce
    BY <1>2, PutThenAmAssumption DEF senderVars
  <2>3. CASE last
    <3>1. ~Entered(o)'
      BY <1>5, <1>7, <1>9, <2>3, MsgFacts DEF Entered, Pending
    <3>2. table' = [table EXCEPT ![Key(o)] = Nil]
      BY <1>1, <2>3
    <3>3. QED
      BY <1>3, <1>8, <2>1, <2>2, <3>1, <3>2, TableStep
  <2>4. CASE ~last
    <3>1. Entered(o)'
      BY <1>5, <1>7, <1>8, <2>4 DEF Entered, Looked, Pending
    <3>2. table' = [table EXCEPT ![Key(o)] = a]
      BY <1>1, <2>4
    <3>3. QED
      BY <1>3, <1>8, <1>15, <2>1, <2>2, <3>1, <3>2, TableStep
  <2>5. QED
    BY <2>3, <2>4
<1>18. RepliesOK'
  BY <1>2, OverKeeps, RepliesKeep
<1>19. QED
  BY <1>12, <1>13, <1>14, <1>16, <1>17, <1>18 DEF PutInv

\* The step that counts a message: its credits, and whether it is the last.
LEMMA CountedState ==
  ASSUME PutInv, NEW m \in Msgs, m.kind # "packed", NEW o \in Ops, o = m.op,
         (m.kind = "payload" /\ pc[m] = "locked") \/ (m.kind = "cmd" /\ pc[m] = "credit"),
         NEW c \in {"erase", "complete", "enqueue", "done"}, pc' = [pc EXCEPT ![m] = c],
         NEW old \in States, NEW new \in States, StateOf(o, old),
         new.live <=> old.live, new.credits = old.credits + Weight(m),
         new.exec <=> old.exec, new.bytes = old.bytes, new.reply = old.reply
  PROVE  /\ StateOf(o, new)'
         /\ new.credits = Total(o) <=> \A n \in MsgsOf(o) : n = m \/ pc[n] = "done"
<1>1. \A n \in Msgs : pc'[n] = IF n = m THEN c ELSE pc[n]
  BY DEF PutInv, TypeOK
<1>2. o \in Ops \ Packed /\ m \in MsgsOf(o) /\ \A n \in MsgsOf(o) : n \in Msgs /\ n.op = o
  BY MsgFacts
<1>3. PICK C \in SUBSET MsgsOf(o) : C = {n \in MsgsOf(o) : Counted(n)}
  OBVIOUS
<1>4. m \notin C /\ old.credits = Credits(C)
  BY <1>2, <1>3 DEF Counted, StateOf
<1>5. {n \in MsgsOf(o) : Counted(n)'} = C \cup {m}
  BY <1>1, <1>2, <1>3 DEF Counted
<1>6. Credits(C \cup {m}) = Credits(C) + Weight(m)
  BY <1>2, <1>4, CreditsAdd
<1>7. new.credits = Credits({n \in MsgsOf(o) : Counted(n)'})
  BY <1>4, <1>5, <1>6
<1>8. \A b : (\E n \in MsgsOf(o) : Copied(n)' /\ b \in PartBytes(n))
             <=> (\E n \in MsgsOf(o) : Copied(n) /\ b \in PartBytes(n))
  <2>1. CASE m.kind = "payload"
    <3>1. PartBytes(m) = {}
      BY <2>1 DEF PartBytes
    <3>2. \A n \in MsgsOf(o) : n # m => (Copied(n)' <=> Copied(n))
      BY <1>1, <1>2 DEF Copied
    <3>3. QED
      BY <3>1, <3>2
  <2>2. CASE m.kind = "cmd"
    <3>1. \A n \in MsgsOf(o) : Copied(n)' <=> Copied(n)
      BY <1>1, <1>2, <2>2 DEF Copied
    <3>2. QED
      BY <3>1
  <2>3. QED
    BY <2>1, <2>2
<1>9. \A n \in MsgsOf(o) : Looked(n)' <=> Looked(n)
  BY <1>1, <1>2 DEF Looked
<1>10. new.reply = IF \E n \in MsgsOf(o) : n.kind = "payload" /\ Looked(n)' THEN Answer(o) ELSE Nil
  BY <1>2, <1>9 DEF StateOf
<1>11. StateOf(o, new)'
  <2>1. /\ new.live
        /\ new.exec <=> \E n \in MsgsOf(o) : Copied(n)' /\ 0 \in PartBytes(n)
        /\ \A b \in Bytes : new.bytes[b] =
             IF \E n \in MsgsOf(o) : Copied(n)' /\ b \in PartBytes(n) THEN o ELSE Nil
    BY <1>8 DEF StateOf
  <2>2. QED
    BY <1>7, <1>10, <2>1 DEF StateOf, Answer
<1>12. new.credits = Total(o) <=> \A n \in MsgsOf(o) : n = m \/ n \in C
  BY <1>2, <1>4, CreditsLast
<1>13. \A n \in MsgsOf(o) : n # m => (n \in C <=> pc[n] = "done")
  <2>1. ASSUME NEW n \in MsgsOf(o), n # m
        PROVE  n \in C <=> pc[n] = "done"
    BY <1>3, <2>1, LastOne DEF Counted
  <2>2. QED
    BY <2>1
<1>14. QED
  BY <1>11, <1>12, <1>13

\* What follows for the messages when a handler counts itself and is not the last.
LEMMA NotTheLast ==
  ASSUME PutInv, NEW m \in Msgs, pc[m] # "done", NEW n \in MsgsOf(m.op), n # m, pc[n] # "done"
  PROVE  Pending(n)
BY LastOne

LEMMA PutPayloadCredit ==
  ASSUME PutInv, NEW m \in Msgs, PayloadCredit(m)
  PROVE  PutInv'
<1>0. PICK o \in Ops : o = m.op
  BY MsgFacts
<1>1. PICK a : a = ptr[m]
  OBVIOUS
<1>2. PICK after : after = mem[a].credits + 1
  OBVIOUS
<1>3. /\ pc[m] = "locked" /\ mem' = [mem EXCEPT ![a].credits = after]
      /\ \/ /\ after = Total(o)
            /\ table' = [table EXCEPT ![Key(o)] = Nil] /\ pc' = [pc EXCEPT ![m] = "enqueue"]
         \/ /\ after # Total(o)
            /\ table' = table /\ pc' = [pc EXCEPT ![m] = "done"]
      /\ holder' = Nil
      /\ UNCHANGED <<senderVars, body, ptr, opt, cb, inbox, ran, replyVars>>
  BY <1>0, <1>1, <1>2 DEF PayloadCredit
<1>4. TypeOK /\ HandlersOK
  BY DEF PutInv
<1>5. /\ m.kind = "payload" /\ holder = m /\ Looked(m) /\ o \in Ops \ Packed
      /\ cb[m] \in Ops \cup {Nil}
  BY <1>0, <1>3, <1>4, MsgFacts DEF HandlersOK, Looked, TypeOK
<1>6. /\ a \in Addrs /\ Holds(o, a) /\ StateOf(o, mem[a]) /\ inbox[a] = 0
      /\ m \in MsgsOf(o) /\ ~Over(o) /\ ran[o] = 0 /\ nonce[o] # Nil
      /\ \A n \in MsgsOf(o) : n \in Msgs /\ n.op = o
  BY <1>0, <1>1, <1>3, <1>5, HandlerFacts
<1>7. PICK c \in {"enqueue", "done"} :
        /\ pc' = [pc EXCEPT ![m] = c]
        /\ c = "enqueue" <=> after = Total(o)
        /\ table' = IF c = "enqueue" THEN [table EXCEPT ![Key(o)] = Nil] ELSE table
  BY <1>3
<1>8. \A n \in Msgs : pc'[n] = IF n = m THEN c ELSE pc[n]
  BY <1>4, <1>7 DEF TypeOK
<1>9. PICK old \in States : old = mem[a]
  BY <1>4, <1>6 DEF TypeOK
<1>10. PICK st : st = [old EXCEPT !.credits = after]
  OBVIOUS
<1>11. /\ st \in States /\ (st.live <=> old.live) /\ st.credits = old.credits + Weight(m)
       /\ (st.exec <=> old.exec) /\ st.bytes = old.bytes /\ st.reply = old.reply
       /\ st.credits = after
  <2>1. Weight(m) = 1 /\ after = old.credits + 1 /\ after \in Nat
    BY <1>2, <1>5, <1>9 DEF Weight, States
  <2>2. QED
    BY <1>10, <2>1 DEF States
<1>12. mem' = [mem EXCEPT ![a] = st]
  BY <1>3, <1>4, <1>6, <1>9, <1>10 DEF TypeOK
<1>13. mem'[a] = st /\ mem' \in [Addrs -> States] /\ \A b \in Addrs : b # a => mem'[b] = mem[b]
  BY <1>4, <1>6, <1>11, <1>12 DEF TypeOK
<1>14. StateOf(o, st)' /\ (after = Total(o) <=> \A n \in MsgsOf(o) : n = m \/ pc[n] = "done")
  <2>1. StateOf(o, old)
    BY <1>6, <1>9
  <2>2. /\ StateOf(o, st)'
        /\ st.credits = Total(o) <=> \A n \in MsgsOf(o) : n = m \/ pc[n] = "done"
    <3>1. c \in {"erase", "complete", "enqueue", "done"} /\ m.kind # "packed"
      BY <1>5, <1>7
    <3>2. (m.kind = "payload" /\ pc[m] = "locked") \/ (m.kind = "cmd" /\ pc[m] = "credit")
      BY <1>3, <1>5
    <3>3. QED
      BY <1>0, <1>7, <1>9, <1>11, <2>1, <3>1, <3>2, CountedState, ZenonT(60)
  <2>3. QED
    BY <1>11, <2>2
<1>15. TypeOK'
  <2>1. table' \in [Keys -> Addrs \cup {Nil}]
    BY <1>4, <1>7 DEF TypeOK
  <2>2. pc' \in [Msgs -> {"unsent", "flight", "locked", "copy", "credit", "erase",
                          "complete", "enqueue", "reply", "done"}]
    BY <1>4, <1>7 DEF TypeOK
  <2>3. QED
    BY <1>3, <1>4, <1>13, <2>1, <2>2 DEF TypeOK, senderVars, replyVars
<1>16. SenderOK' /\ NoncesOK'
  BY <1>3, <1>7, SenderKeeps
<1>17. \A n \in MsgsOf(o) : Looked(n) => ptr[n] = a
  BY <1>0, <1>1, <1>4, <1>5, <1>6 DEF HandlersOK
<1>18. cb[m] = Answer(o)
  BY <1>0, <1>3, <1>4, <1>5 DEF HandlersOK
<1>19. HandlersOK'
  BY <1>0, <1>1, <1>3, <1>5, <1>6, <1>7, <1>14, <1>17, <1>18, HandlersStep
<1>20. \A n \in MsgsOf(o) : Looked(n)' => ptr'[n] = a
  BY <1>3, <1>5, <1>6, <1>8, <1>17 DEF Looked
<1>21. c = "done" => \E n \in MsgsOf(o) : n # m /\ pc[n] # "done" /\ Pending(n)
  BY <1>0, <1>3, <1>7, <1>14, NotTheLast
<1>22. StatesOK'
  <2>1. Holds(o, a)'
    BY <1>1, <1>3, <1>6, <1>8 DEF Holds, Looked
  <2>2. StateOf(o, mem[a])'
    BY <1>13, <1>14 DEF StateOf
  <2>3. ~Handed(o)'
    <3>1. CASE c = "enqueue"
      BY <1>6, <1>8, <3>1 DEF Handed
    <3>2. CASE c = "done"
      <4>1. PICK n \in MsgsOf(o) : n # m /\ Pending(n)
        BY <1>21, <3>2
      <4>2. QED
        BY <1>6, <1>8, <4>1 DEF Handed, Pending
    <3>3. QED
      BY <3>1, <3>2
  <2>4. \A n \in Msgs : n.op # o => pc'[n] = pc[n] /\ ptr'[n] = ptr[n]
    BY <1>0, <1>3, <1>8
  <2>5. QED
    BY <1>3, <1>6, <1>13, <1>17, <1>20, <2>1, <2>2, <2>3, <2>4, StatesStep
<1>23. TableOK'
  <2>1. \A n \in Msgs : n.op # o => pc'[n] = pc[n] /\ ptr'[n] = ptr[n] /\ opt'[n] = opt[n]
    BY <1>0, <1>3, <1>8
  <2>2. a # Nil /\ nonce' = nonce
    BY <1>3, <1>6, PutThenAmAssumption DEF senderVars
  <2>3. CASE c = "enqueue"
    <3>1. ~Entered(o)'
      BY <1>6, <1>7, <1>8, <1>14, <2>3 DEF Entered, Pending
    <3>2. table' = [table EXCEPT ![Key(o)] = Nil]
      BY <1>7, <2>3
    <3>3. QED
      BY <1>5, <1>6, <2>1, <2>2, <3>1, <3>2, TableStep
  <2>4. CASE c = "done"
    <3>1. PICK n \in MsgsOf(o) : n # m /\ Pending(n)
      BY <1>21, <2>4
    <3>2. Pending(n)'
      BY <1>3, <1>6, <1>8, <3>1 DEF Pending
    <3>3. Entered(o) /\ Entered(o)'
      BY <1>5, <1>6, <1>8, <3>1, <3>2 DEF Entered, Looked
    <3>4. table[Key(o)] = a /\ Key(o) \in Keys
      BY <1>1, <1>4, <1>5, <1>6, <3>3, KeyFacts DEF PutInv, TableOK
    <3>5. table' = [table EXCEPT ![Key(o)] = a]
      BY <1>4, <1>7, <2>4, <3>4 DEF TypeOK
    <3>6. QED
      BY <1>5, <1>6, <1>20, <2>1, <2>2, <3>3, <3>5, TableStep
  <2>5. QED
    BY <2>3, <2>4
<1>24. RepliesOK'
  BY <1>0, <1>3, <1>7, <1>21, OverKeeps, RepliesKeep
<1>25. QED
  BY <1>15, <1>16, <1>19, <1>22, <1>23, <1>24 DEF PutInv

LEMMA PutCmdCopy ==
  ASSUME PutInv, NEW m \in Msgs, CmdCopy(m)
  PROVE  PutInv'
<1>0. PICK o \in Ops : o = m.op
  BY MsgFacts
<1>1. PICK a : a = ptr[m]
  OBVIOUS
<1>2. PICK old : old = mem[a]
  OBVIOUS
<1> DEFINE f == [b \in Bytes |-> IF b >= m.off /\ b < m.off + PartSize(o, m.off)
                                 THEN o ELSE old.bytes[b]]
<1>3. PICK st : st = [old EXCEPT !.bytes = f, !.exec = old.exec \/ m.off = 0]
  OBVIOUS
<1>4. /\ pc[m] = "copy" /\ mem' = [mem EXCEPT ![a] = st]
      /\ pc' = [pc EXCEPT ![m] = "credit"]
      /\ UNCHANGED <<senderVars, body, ptr, opt, cb, holder, table, inbox, ran, replyVars>>
  BY <1>0, <1>1, <1>2, <1>3 DEF CmdCopy
<1>5. TypeOK /\ HandlersOK
  BY DEF PutInv
<1>6. m.kind = "cmd" /\ Looked(m) /\ o \in Ops \ Packed /\ m.off \in Offsets(o)
  BY <1>0, <1>4, <1>5, MsgFacts DEF HandlersOK, Looked
<1>7. /\ a \in Addrs /\ Holds(o, a) /\ StateOf(o, mem[a]) /\ inbox[a] = 0
      /\ m \in MsgsOf(o) /\ ran[o] = 0
      /\ \A n \in MsgsOf(o) : n \in Msgs /\ n.op = o
  BY <1>0, <1>1, <1>4, <1>6, HandlerFacts
<1>8. \A n \in Msgs : pc'[n] = IF n = m THEN "credit" ELSE pc[n]
  BY <1>4, <1>5 DEF TypeOK
<1>9. old \in States /\ StateOf(o, old)
  BY <1>2, <1>5, <1>7 DEF TypeOK
<1>10. f \in [Bytes -> Ops \cup {Nil}]
       /\ \A b \in Bytes : f[b] = IF b >= m.off /\ b < m.off + PartSize(o, m.off) THEN o ELSE old.bytes[b]
  BY <1>9 DEF States
<1> HIDE DEF f
<1>11. /\ st \in States /\ (st.live <=> old.live) /\ st.credits = old.credits
       /\ (st.exec <=> (old.exec \/ m.off = 0)) /\ st.bytes = f /\ st.reply = old.reply
  BY <1>3, <1>9, <1>10 DEF States
<1>12. mem' = [mem EXCEPT ![a] = st]
  BY <1>4
<1>13. mem'[a] = st /\ mem' \in [Addrs -> States] /\ \A b \in Addrs : b # a => mem'[b] = mem[b]
  BY <1>5, <1>7, <1>11, <1>12 DEF TypeOK
<1>14. TypeOK'
  BY <1>4, <1>5, <1>13 DEF TypeOK, senderVars, replyVars
<1>15. SenderOK' /\ NoncesOK'
  BY <1>4, SenderKeeps
<1>16. \A n \in MsgsOf(o) : Looked(n) => ptr[n] = a
  BY <1>0, <1>1, <1>5, <1>6, <1>7 DEF HandlersOK
<1>17. opt[m] => \A n \in MsgsOf(o) : n = m \/ pc[n] = "done"
  BY <1>0, <1>4, <1>5 DEF HandlersOK
<1>18. HandlersOK'
  BY <1>0, <1>1, <1>4, <1>6, <1>7, <1>16, <1>17, HandlersStep
<1>19. /\ \A n \in MsgsOf(o) : (Counted(n)' <=> Counted(n)) /\ (Looked(n)' <=> Looked(n))
       /\ \A n \in MsgsOf(o) : Copied(n)' <=> Copied(n) \/ n = m
  BY <1>4, <1>7, <1>8 DEF Counted, Looked, Copied
<1>20. /\ \A b \in Bytes : b \in PartBytes(m) <=> b >= m.off /\ b < m.off + PartSize(o, m.off)
       /\ 0 \in PartBytes(m) <=> m.off = 0
  <2>1. PartBytes(m) = m.off .. m.off + PartSize(o, m.off) - 1
    BY <1>0, <1>6 DEF PartBytes
  <2>2. m.off \in Nat /\ PartSize(o, m.off) \in Nat /\ PartSize(o, m.off) > 0
    BY <1>6, PartFacts
  <2>3. \A b \in Bytes : b \in Nat
    BY PutThenAmAssumption DEF Bytes
  <2>4. QED
    BY <2>1, <2>2, <2>3
<1>21. StateOf(o, st)'
  <2>1. {n \in MsgsOf(o) : Counted(n)'} = {n \in MsgsOf(o) : Counted(n)}
    BY <1>19
  <2>2. st.credits = Credits({n \in MsgsOf(o) : Counted(n)'})
    BY <1>6, <1>9, <1>11, <2>1 DEF StateOf
  <2>3. st.reply = IF \E n \in MsgsOf(o) : n.kind = "payload" /\ Looked(n)' THEN Answer(o) ELSE Nil
    BY <1>6, <1>9, <1>11, <1>19 DEF StateOf
  <2>4. st.exec <=> \E n \in MsgsOf(o) : Copied(n)' /\ 0 \in PartBytes(n)
    BY <1>7, <1>9, <1>11, <1>19, <1>20 DEF StateOf
  <2>5. ASSUME NEW b \in Bytes
        PROVE  st.bytes[b] = IF \E n \in MsgsOf(o) : Copied(n)' /\ b \in PartBytes(n) THEN o ELSE Nil
    BY <1>7, <1>9, <1>10, <1>11, <1>19, <1>20 DEF StateOf
  <2>6. QED
    BY <1>9, <1>11, <2>2, <2>3, <2>4, <2>5 DEF StateOf, Answer
<1>22. StatesOK'
  <2>1. Holds(o, a)'
    BY <1>1, <1>4, <1>7, <1>8 DEF Holds, Looked
  <2>2. StateOf(o, mem[a])'
    BY <1>13, <1>21 DEF StateOf
  <2>3. ~Handed(o)'
    BY <1>7, <1>8 DEF Handed
  <2>4. \A n \in Msgs : n.op # o => pc'[n] = pc[n] /\ ptr'[n] = ptr[n]
    BY <1>0, <1>4, <1>8
  <2>5. \A n \in MsgsOf(o) : Looked(n)' => ptr'[n] = a
    BY <1>4, <1>16, <1>19
  <2>6. QED
    BY <1>4, <1>7, <1>13, <1>16, <2>1, <2>2, <2>3, <2>4, <2>5, StatesStep
<1>23. TableOK'
  <2>1. \A n \in Msgs : (Looked(n)' <=> Looked(n)) /\ (Pending(n)' <=> Pending(n))
    BY <1>4, <1>8 DEF Looked, Pending
  <2>2. QED
    BY <1>4, <2>1, TableKeep DEF senderVars
<1>24. RepliesOK'
  BY <1>4, OverKeeps, RepliesKeep
<1>25. QED
  BY <1>14, <1>15, <1>18, <1>22, <1>23, <1>24 DEF PutInv

LEMMA PutCmdCredit ==
  ASSUME PutInv, NEW m \in Msgs, CmdCredit(m)
  PROVE  PutInv'
<1>0. PICK o \in Ops : o = m.op
  BY MsgFacts
<1>1. PICK a : a = ptr[m]
  OBVIOUS
<1>2. PICK after : after = mem[a].credits + PartSize(o, m.off)
  OBVIOUS
<1>3. PICK c : c = AfterCredit(m, after)
  OBVIOUS
<1>4. /\ pc[m] = "credit" /\ mem' = [mem EXCEPT ![a].credits = after]
      /\ pc' = [pc EXCEPT ![m] = c]
      /\ UNCHANGED <<senderVars, body, ptr, opt, cb, holder, table, inbox, ran, replyVars>>
  BY <1>0, <1>1, <1>2, <1>3 DEF CmdCredit
<1>5. TypeOK /\ HandlersOK
  BY DEF PutInv
<1>6. m.kind = "cmd" /\ Looked(m) /\ o \in Ops \ Packed /\ m.off \in Offsets(o) /\ opt[m] \in BOOLEAN
  BY <1>0, <1>4, <1>5, MsgFacts DEF HandlersOK, Looked, TypeOK
<1>7. /\ a \in Addrs /\ Holds(o, a) /\ StateOf(o, mem[a]) /\ inbox[a] = 0
      /\ m \in MsgsOf(o) /\ ran[o] = 0 /\ ~Over(o) /\ nonce[o] # Nil
      /\ \A n \in MsgsOf(o) : n \in Msgs /\ n.op = o
  BY <1>0, <1>1, <1>4, <1>6, HandlerFacts
<1>8. /\ c \in {"erase", "complete", "done"}
      /\ c = "done" <=> after # Total(o)
      /\ c = "complete" => opt[m]
      /\ c = "erase" => ~opt[m]
  BY <1>0, <1>3, <1>6 DEF AfterCredit
<1>9. \A n \in Msgs : pc'[n] = IF n = m THEN c ELSE pc[n]
  BY <1>4, <1>5 DEF TypeOK
<1>10. PICK old \in States : old = mem[a]
  BY <1>5, <1>7 DEF TypeOK
<1>11. PICK st : st = [old EXCEPT !.credits = after]
  OBVIOUS
<1>12. /\ st \in States /\ (st.live <=> old.live) /\ st.credits = old.credits + Weight(m)
       /\ (st.exec <=> old.exec) /\ st.bytes = old.bytes /\ st.reply = old.reply
       /\ st.credits = after
  <2>1. Weight(m) = PartSize(o, m.off) /\ after = old.credits + Weight(m) /\ after \in Nat
    BY <1>0, <1>2, <1>6, <1>10, PartFacts DEF Weight, States
  <2>2. QED
    BY <1>11, <2>1 DEF States
<1>13. mem' = [mem EXCEPT ![a] = st]
  BY <1>4, <1>5, <1>7, <1>10, <1>11 DEF TypeOK
<1>14. mem'[a] = st /\ mem' \in [Addrs -> States] /\ \A b \in Addrs : b # a => mem'[b] = mem[b]
  BY <1>5, <1>7, <1>12, <1>13 DEF TypeOK
<1>15. StateOf(o, st)' /\ (after = Total(o) <=> \A n \in MsgsOf(o) : n = m \/ pc[n] = "done")
  <2>1. StateOf(o, old)
    BY <1>7, <1>10
  <2>2. /\ StateOf(o, st)'
        /\ st.credits = Total(o) <=> \A n \in MsgsOf(o) : n = m \/ pc[n] = "done"
    <3>1. c \in {"erase", "complete", "enqueue", "done"} /\ m.kind # "packed"
      BY <1>6, <1>8
    <3>2. (m.kind = "payload" /\ pc[m] = "locked") \/ (m.kind = "cmd" /\ pc[m] = "credit")
      BY <1>4, <1>6
    <3>3. QED
      BY <1>0, <1>4, <1>10, <1>12, <2>1, <3>1, <3>2, CountedState, ZenonT(60)
  <2>3. QED
    BY <1>12, <2>2
<1>16. TypeOK'
  <2>1. pc' \in [Msgs -> {"unsent", "flight", "locked", "copy", "credit", "erase",
                          "complete", "enqueue", "reply", "done"}]
    BY <1>4, <1>5, <1>8 DEF TypeOK
  <2>2. QED
    BY <1>4, <1>5, <1>14, <2>1 DEF TypeOK, senderVars, replyVars
<1>17. SenderOK' /\ NoncesOK'
  BY <1>4, <1>8, SenderKeeps
<1>18. \A n \in MsgsOf(o) : Looked(n) => ptr[n] = a
  BY <1>0, <1>1, <1>5, <1>6, <1>7 DEF HandlersOK
<1>19. HandlersOK'
  BY <1>0, <1>1, <1>4, <1>6, <1>7, <1>8, <1>15, <1>18, HandlersStep
<1>20. \A n \in MsgsOf(o) : Looked(n)' => ptr'[n] = a
  BY <1>4, <1>6, <1>7, <1>9, <1>18 DEF Looked
<1>21. c = "done" => \E n \in MsgsOf(o) : n # m /\ pc[n] # "done" /\ Pending(n)
  BY <1>0, <1>4, <1>8, <1>15, NotTheLast
<1>22. StatesOK'
  <2>1. Holds(o, a)'
    BY <1>1, <1>4, <1>7, <1>8, <1>9 DEF Holds, Looked
  <2>2. StateOf(o, mem[a])'
    BY <1>14, <1>15 DEF StateOf
  <2>3. ~Handed(o)'
    <3>1. CASE c # "done"
      BY <1>7, <1>8, <1>9, <3>1 DEF Handed
    <3>2. CASE c = "done"
      <4>1. PICK n \in MsgsOf(o) : n # m /\ Pending(n)
        BY <1>21, <3>2
      <4>2. QED
        BY <1>7, <1>9, <4>1 DEF Handed, Pending
    <3>3. QED
      BY <3>1, <3>2
  <2>4. \A n \in Msgs : n.op # o => pc'[n] = pc[n] /\ ptr'[n] = ptr[n]
    BY <1>0, <1>4, <1>9
  <2>5. QED
    BY <1>4, <1>7, <1>14, <1>18, <1>20, <2>1, <2>2, <2>3, <2>4, StatesStep
<1>23. TableOK'
  <2>1. CASE c = "done"
    <3>1. PICK n \in MsgsOf(o) : n # m /\ Pending(n)
      BY <1>21, <2>1
    <3>2. Pending(n)'
      BY <1>4, <1>7, <1>9, <3>1 DEF Pending
    <3>3. Entered(o) /\ Entered(o)'
      BY <1>6, <1>7, <1>8, <1>9, <3>1, <3>2 DEF Entered, Looked
    <3>4. table[Key(o)] = a /\ Key(o) \in Keys
      BY <1>1, <1>5, <1>6, <1>7, <3>3, KeyFacts DEF PutInv, TableOK
    <3>5. table' = [table EXCEPT ![Key(o)] = a]
      BY <1>4, <1>5, <3>4 DEF TypeOK
    <3>6. \A k \in Msgs : k.op # o => pc'[k] = pc[k] /\ ptr'[k] = ptr[k] /\ opt'[k] = opt[k]
      BY <1>0, <1>4, <1>9
    <3>7. a # Nil /\ nonce' = nonce
      BY <1>4, <1>7, PutThenAmAssumption DEF senderVars
    <3>8. QED
      BY <1>6, <1>7, <1>20, <3>3, <3>5, <3>6, <3>7, TableStep
  <2>2. CASE c # "done"
    <3>1. \A n \in Msgs : (Looked(n)' <=> Looked(n)) /\ (Pending(n)' <=> Pending(n))
      BY <1>4, <1>8, <1>9, <2>2 DEF Looked, Pending
    <3>2. QED
      BY <1>4, <3>1, TableKeep DEF senderVars
  <2>3. QED
    BY <2>1, <2>2
<1>24. RepliesOK'
  BY <1>0, <1>4, <1>8, <1>21, OverKeeps, RepliesKeep
<1>25. QED
  BY <1>16, <1>17, <1>19, <1>22, <1>23, <1>24 DEF PutInv

LEMMA PutCmdErase ==
  ASSUME PutInv, NEW m \in Msgs, CmdErase(m)
  PROVE  PutInv'
<1>0. PICK o \in Ops : o = m.op
  BY MsgFacts
<1>1. /\ pc[m] = "erase" /\ table' = [table EXCEPT ![Key(o)] = Nil]
      /\ pc' = [pc EXCEPT ![m] = "complete"]
      /\ UNCHANGED <<senderVars, body, ptr, opt, cb, holder, mem, inbox, ran, replyVars>>
  BY <1>0 DEF CmdErase
<1>2. TypeOK /\ HandlersOK
  BY DEF PutInv
<1>3. m.kind = "cmd" /\ Looked(m) /\ o \in Ops \ Packed
  BY <1>0, <1>1, <1>2, MsgFacts DEF HandlersOK, Looked
<1>4. /\ ptr[m] \in Addrs /\ ~Over(o) /\ nonce[o] # Nil
      /\ \A n \in MsgsOf(o) : n \in Msgs /\ n.op = o
  BY <1>0, <1>1, <1>3, HandlerFacts
<1>5. \A n \in Msgs : pc'[n] = IF n = m THEN "complete" ELSE pc[n]
  BY <1>1, <1>2 DEF TypeOK
<1>6. TypeOK'
  BY <1>1, <1>2 DEF TypeOK, senderVars, replyVars
<1>7. SenderOK' /\ NoncesOK'
  BY <1>1, SenderKeeps
<1>8. /\ \A n \in MsgsOf(m.op) : Looked(n) => ptr[n] = ptr[m]
      /\ \A n \in MsgsOf(m.op) : n = m \/ pc[n] = "done"
  BY <1>1, <1>2, <1>3 DEF HandlersOK
<1>9. HandlersOK'
  BY <1>0, <1>1, <1>3, <1>4, <1>8, HandlersStep
<1>10. StatesOK'
  <2>1. \A n \in Msgs : /\ (Looked(n)' <=> Looked(n)) /\ (Copied(n)' <=> Copied(n))
                        /\ Counted(n)' <=> Counted(n)
                        /\ pc'[n] \in {"reply", "done"} <=> pc[n] \in {"reply", "done"}
    BY <1>1, <1>5 DEF Looked, Copied, Counted
  <2>2. QED
    BY <1>1, <2>1, StatesKeep
<1>11. TableOK'
  <2>1. ~Entered(o)'
    BY <1>0, <1>4, <1>5, <1>8 DEF Entered, Pending
  <2>2. \A n \in Msgs : n.op # o => pc'[n] = pc[n] /\ ptr'[n] = ptr[n] /\ opt'[n] = opt[n]
    BY <1>0, <1>1, <1>5
  <2>3. nonce' = nonce
    BY <1>1 DEF senderVars
  <2>4. QED
    BY <1>1, <1>3, <1>4, <2>1, <2>2, <2>3, TableStep
<1>12. RepliesOK'
  BY <1>1, OverKeeps, RepliesKeep
<1>13. QED
  BY <1>6, <1>7, <1>9, <1>10, <1>11, <1>12 DEF PutInv

LEMMA PutCmdComplete ==
  ASSUME PutInv, NEW m \in Msgs, CmdComplete(m)
  PROVE  PutInv'
<1>0. PICK o \in Ops : o = m.op
  BY MsgFacts
<1>1. /\ pc[m] = "complete" /\ cb' = [cb EXCEPT ![m] = mem[ptr[m]].reply]
      /\ pc' = [pc EXCEPT ![m] = "enqueue"]
      /\ UNCHANGED <<senderVars, body, ptr, opt, holder, targetVars, replyVars>>
  BY DEF CmdComplete
<1>2. TypeOK /\ HandlersOK
  BY DEF PutInv
<1>3. m.kind = "cmd" /\ Looked(m) /\ o \in Ops \ Packed
  BY <1>0, <1>1, <1>2, MsgFacts DEF HandlersOK, Looked
<1>4. /\ ptr[m] \in Addrs /\ StateOf(o, mem[ptr[m]])
      /\ \A n \in MsgsOf(o) : n \in Msgs /\ n.op = o
  BY <1>0, <1>1, <1>3, HandlerFacts
<1>5. \A n \in Msgs : pc'[n] = IF n = m THEN "enqueue" ELSE pc[n]
  BY <1>1, <1>2 DEF TypeOK
<1>6. /\ \A n \in MsgsOf(m.op) : Looked(n) => ptr[n] = ptr[m]
      /\ \A n \in MsgsOf(m.op) : n = m \/ pc[n] = "done"
  BY <1>1, <1>2, <1>3 DEF HandlersOK
<1>7. mem[ptr[m]].reply = Answer(o)
  <2>1. PICK n \in MsgsOf(o) : n = [op |-> o, kind |-> "payload", off |-> 0]
    BY <1>3, MsgsKnown
  <2>2. n.kind = "payload" /\ Looked(n)
    BY <1>0, <1>3, <1>6, <2>1 DEF Looked
  <2>3. QED
    BY <1>3, <1>4, <2>2 DEF StateOf
<1>8. \A n \in Msgs : cb'[n] = IF n = m THEN Answer(o) ELSE cb[n]
  BY <1>1, <1>2, <1>7 DEF TypeOK
<1>9. TypeOK'
  <2>1. Answer(o) \in Ops \cup {Nil}
    BY DEF Answer
  <2>2. cb' \in [Msgs -> Ops \cup {Nil}]
    BY <1>1, <1>2, <1>7, <2>1 DEF TypeOK
  <2>3. QED
    BY <1>1, <1>2, <2>2 DEF TypeOK, senderVars, targetVars, replyVars
<1>10. SenderOK' /\ NoncesOK'
  BY <1>1, SenderKeeps
<1>11. HandlersOK'
  BY <1>0, <1>1, <1>3, <1>4, <1>6, <1>8, HandlersStep
<1>12. \A n \in Msgs : /\ (Looked(n)' <=> Looked(n)) /\ (Copied(n)' <=> Copied(n))
                       /\ (Counted(n)' <=> Counted(n)) /\ (Pending(n)' <=> Pending(n))
                       /\ pc'[n] \in {"reply", "done"} <=> pc[n] \in {"reply", "done"}
  BY <1>1, <1>5 DEF Looked, Copied, Counted, Pending
<1>13. StatesOK' /\ TableOK'
  BY <1>1, <1>12, StatesKeep, TableKeep DEF senderVars, targetVars
<1>14. RepliesOK'
  BY <1>1, OverKeeps, RepliesKeep
<1>15. QED
  BY <1>9, <1>10, <1>11, <1>13, <1>14 DEF PutInv

LEMMA PutEnqueue ==
  ASSUME PutInv, NEW m \in Msgs, Enqueue(m)
  PROVE  PutInv'
<1>0. PICK o \in Ops : o = m.op
  BY MsgFacts
<1>1. PICK a : a = ptr[m]
  OBVIOUS
<1>2. /\ pc[m] = "enqueue" /\ inbox' = [inbox EXCEPT ![a] = @ + 1]
      /\ pc' = [pc EXCEPT ![m] = "reply"]
      /\ UNCHANGED <<senderVars, body, ptr, opt, cb, holder, table, mem, ran, replyVars>>
  BY <1>1 DEF Enqueue
<1>3. TypeOK /\ HandlersOK
  BY DEF PutInv
<1>4. Looked(m) /\ cb[m] = Answer(o)
  BY <1>0, <1>2, <1>3 DEF HandlersOK, Looked
<1>5. /\ a \in Addrs /\ Holds(o, a) /\ StateOf(o, mem[a]) /\ inbox[a] = 0
      /\ m \in MsgsOf(o) /\ ran[o] = 0
      /\ \A n \in MsgsOf(o) : n \in Msgs /\ n.op = o
  BY <1>0, <1>1, <1>2, <1>4, HandlerFacts
<1>6. \A n \in Msgs : pc'[n] = IF n = m THEN "reply" ELSE pc[n]
  BY <1>2, <1>3 DEF TypeOK
<1>7. /\ \A n \in MsgsOf(o) : Looked(n) => ptr[n] = a
      /\ \A n \in MsgsOf(o) : n = m \/ pc[n] = "done"
  BY <1>0, <1>1, <1>2, <1>3, <1>4 DEF HandlersOK
<1>8. TypeOK'
  <2>1. inbox' \in [Addrs -> Nat]
    BY <1>2, <1>3, <1>5 DEF TypeOK
  <2>2. QED
    BY <1>2, <1>3, <2>1 DEF TypeOK, senderVars, replyVars
<1>9. SenderOK' /\ NoncesOK'
  BY <1>2, SenderKeeps
<1>10. HandlersOK'
  <2>1. holder # m
    BY <1>2, <1>3, NilIsNoMessage DEF HandlersOK
  <2>2. QED
    BY <1>0, <1>1, <1>2, <1>4, <1>5, <1>7, <2>1, HandlersStep
<1>11. \A n \in Msgs : /\ (Looked(n)' <=> Looked(n)) /\ (Copied(n)' <=> Copied(n))
                       /\ (Counted(n)' <=> Counted(n)) /\ (Pending(n)' <=> Pending(n))
  BY <1>2, <1>6 DEF Looked, Copied, Counted, Pending
<1>12. StatesOK'
  <2>1. Holds(o, a)'
    BY <1>1, <1>2, <1>5, <1>11, <1>4 DEF Holds
  <2>2. StateOf(o, mem[a])'
    <3>1. {n \in MsgsOf(o) : Counted(n)'} = {n \in MsgsOf(o) : Counted(n)}
      BY <1>5, <1>11
    <3>2. \A b : (\E n \in MsgsOf(o) : Copied(n)' /\ b \in PartBytes(n))
                 <=> (\E n \in MsgsOf(o) : Copied(n) /\ b \in PartBytes(n))
      BY <1>5, <1>11
    <3>3. (\E n \in MsgsOf(o) : n.kind = "payload" /\ Looked(n)')
          <=> (\E n \in MsgsOf(o) : n.kind = "payload" /\ Looked(n))
      BY <1>5, <1>11
    <3>4. QED
      BY <1>2, <1>5, <3>1, <3>2, <3>3 DEF StateOf, Answer
  <2>3. Handed(o)' /\ inbox'[a] = 1
    BY <1>2, <1>3, <1>5, <1>6, <1>7 DEF Handed, TypeOK
  <2>4. \A n \in Msgs : n.op # o => pc'[n] = pc[n] /\ ptr'[n] = ptr[n]
    BY <1>0, <1>2, <1>6
  <2>5. \A n \in MsgsOf(o) : Looked(n)' => ptr'[n] = a
    BY <1>2, <1>5, <1>7, <1>11
  <2>6. \A b \in Addrs : b # a => mem'[b] = mem[b] /\ inbox'[b] = inbox[b]
    BY <1>2, <1>3 DEF TypeOK
  <2>7. QED
    BY <1>2, <1>5, <1>7, <2>1, <2>2, <2>3, <2>4, <2>5, <2>6, StatesStep
<1>13. TableOK'
  BY <1>2, <1>11, TableKeep DEF senderVars
<1>14. RepliesOK'
  BY <1>2, OverKeeps, RepliesKeep
<1>15. QED
  BY <1>8, <1>9, <1>10, <1>12, <1>13, <1>14 DEF PutInv

LEMMA PutReply ==
  ASSUME PutInv, NEW m \in Msgs, Reply(m)
  PROVE  PutInv'
<1>0. PICK o \in Ops : o = m.op
  BY MsgFacts
<1>1. /\ pc[m] = "reply" /\ pc' = [pc EXCEPT ![m] = "done"]
      /\ replies' = IF cb[m] = Nil THEN replies ELSE [replies EXCEPT ![cb[m]] = @ + 1]
      /\ UNCHANGED <<senderVars, body, ptr, opt, cb, holder, targetVars, fired>>
  BY DEF Reply
<1>2. TypeOK /\ HandlersOK
  BY DEF PutInv
<1>3. Looked(m) /\ cb[m] = Answer(o) /\ ptr[m] \in Addrs
  BY <1>0, <1>1, <1>2 DEF HandlersOK, Looked, TypeOK
<1>4. \A n \in Msgs : pc'[n] = IF n = m THEN "done" ELSE pc[n]
  BY <1>1, <1>2 DEF TypeOK
<1>5. /\ \A n \in MsgsOf(m.op) : Looked(n) => ptr[n] = ptr[m]
      /\ \A n \in MsgsOf(m.op) : n = m \/ pc[n] = "done"
  BY <1>1, <1>2, <1>3 DEF HandlersOK
<1>6. cb[m] = Nil <=> o \notin Replying
  BY <1>3, PutThenAmAssumption DEF Answer
<1>7. replies' = IF o \in Replying THEN [replies EXCEPT ![o] = @ + 1] ELSE replies
  BY <1>1, <1>3, <1>6 DEF Answer
<1>8. TypeOK'
  <2>1. replies' \in [Ops -> Nat]
    BY <1>2, <1>7 DEF TypeOK
  <2>2. QED
    BY <1>1, <1>2, <2>1 DEF TypeOK, senderVars, targetVars
<1>9. SenderOK' /\ NoncesOK'
  BY <1>1, SenderKeeps
<1>10. HandlersOK'
  <2>1. holder # m
    BY <1>1, <1>2, NilIsNoMessage DEF HandlersOK
  <2>2. QED
    BY <1>0, <1>1, <1>3, <1>5, <2>1, HandlersStep
<1>11. \A n \in Msgs : /\ (Looked(n)' <=> Looked(n)) /\ (Copied(n)' <=> Copied(n))
                       /\ (Counted(n)' <=> Counted(n)) /\ (Pending(n)' <=> Pending(n))
                       /\ pc'[n] \in {"reply", "done"} <=> pc[n] \in {"reply", "done"}
  BY <1>1, <1>4 DEF Looked, Copied, Counted, Pending
<1>12. StatesOK' /\ TableOK'
  BY <1>1, <1>11, StatesKeep, TableKeep DEF senderVars, targetVars
<1>13. RepliesOK'
  <2>1. Over(o)' /\ ~Over(o)
    BY <1>0, <1>1, <1>4, <1>5, MsgFacts DEF Over
  <2>2. \A p \in Ops : p # o => (Over(p)' <=> Over(p))
    BY <1>0, <1>4, MsgFacts DEF Over
  <2>3. \A p \in Ops : replies'[p] = IF p = o /\ o \in Replying THEN replies[p] + 1 ELSE replies[p]
    BY <1>2, <1>7 DEF TypeOK
  <2>4. \A p \in Ops : replies[p] \in Nat /\ fired[p] \in Nat /\ fired'[p] = fired[p]
    BY <1>1, <1>2 DEF TypeOK
  <2>5. ASSUME NEW p \in Ops
        PROVE  replies'[p] + fired'[p] = IF p \in Replying /\ Over(p)' THEN 1 ELSE 0
    <3>1. replies[p] + fired[p] = IF p \in Replying /\ Over(p) THEN 1 ELSE 0
      BY DEF PutInv, RepliesOK
    <3>2. CASE p = o
      BY <2>1, <2>3, <2>4, <3>1, <3>2
    <3>3. CASE p # o
      BY <2>2, <2>3, <2>4, <3>1, <3>3
    <3>4. QED
      BY <3>2, <3>3
  <2>6. QED
    BY <2>5 DEF RepliesOK
<1>14. QED
  BY <1>8, <1>9, <1>10, <1>12, <1>13 DEF PutInv

-----------------------------------------------------------------------------
(* The master persona, and the reply                                       *)

\* The messages of a put carry the bytes of its command and no others.
LEMMA BytesCovered ==
  ASSUME NEW o \in Ops
  PROVE  /\ CmdSize[o] \in Nat /\ CmdSize[o] > 0 /\ 0 \in Bytes
         /\ \A m \in MsgsOf(o) : PartBytes(m) \subseteq 0 .. CmdSize[o] - 1
         /\ \A b \in 0 .. CmdSize[o] - 1 : \E m \in MsgsOf(o) : b \in PartBytes(m)
<1>1. CmdSize[o] \in Nat /\ CmdSize[o] > 0
  BY PutThenAmAssumption
<1>2. 0 \in Bytes
  BY <1>1 DEF Bytes
<1>3. ASSUME NEW m \in MsgsOf(o)
      PROVE  PartBytes(m) \subseteq 0 .. CmdSize[o] - 1
  <2>1. m \in Msgs /\ m.op = o
    BY MsgFacts
  <2>2. CASE m.kind = "cmd"
    <3>1. m.off \in Offsets(o)
      BY <2>1, <2>2, MsgFacts
    <3>2. PartBytes(m) = m.off .. m.off + PartSize(o, m.off) - 1
      BY <2>1, <2>2 DEF PartBytes
    <3>3. QED
      BY <1>1, <3>1, <3>2, PartFacts
  <2>3. CASE m.kind = "packed"
    BY <2>1, <2>3 DEF PartBytes
  <2>4. CASE m.kind = "payload"
    BY <2>1, <2>4 DEF PartBytes
  <2>5. QED
    BY <2>1, <2>2, <2>3, <2>4, MsgFacts
<1>4. ASSUME NEW b \in 0 .. CmdSize[o] - 1
      PROVE  \E m \in MsgsOf(o) : b \in PartBytes(m)
  <2>1. CASE o \in Packed
    <3>1. PICK m \in MsgsOf(o) : m = [op |-> o, kind |-> "packed", off |-> 0]
      BY <2>1, MsgsKnown
    <3>2. b \in PartBytes(m)
      BY <3>1 DEF PartBytes
    <3>3. QED
      BY <3>2
  <2>2. CASE o \notin Packed
    <3>1. PICK n \in Offsets(o) : n <= b /\ b < n + PartSize(o, n)
      BY <1>1, PartsCover
    <3>2. PICK m \in MsgsOf(o) : m = [op |-> o, kind |-> "cmd", off |-> n]
      BY <2>2, MsgsKnown
    <3>3. PartBytes(m) = n .. n + PartSize(o, n) - 1
      BY <3>2 DEF PartBytes
    <3>4. b \in PartBytes(m)
      BY <1>1, <3>1, <3>3, PartFacts
    <3>5. QED
      BY <3>4
  <2>3. QED
    BY <2>1, <2>2
<1>5. QED
  BY <1>1, <1>2, <1>3, <1>4

\* What has been handed to the master persona is a whole command.
LEMMA HandedWhole ==
  ASSUME PutInv, NEW o \in Ops, NEW a \in Addrs, Holds(o, a), Handed(o)
  PROVE  /\ inbox[a] = 1 /\ mem[a].live /\ mem[a].exec /\ CommandAt(a) = o /\ ran[o] = 0
         /\ \A b \in Bytes : mem[a].bytes[b] = IF b < CmdSize[o] THEN o ELSE Nil
<1>1. StateOf(o, mem[a]) /\ inbox[a] = 1 /\ ran[o] = 0
  BY DEF PutInv, StatesOK, Holds
<1>2. \A m \in MsgsOf(o) : Copied(m)
  BY DEF Handed, Copied
<1>3. mem[a].live /\ (mem[a].exec <=> \E m \in MsgsOf(o) : 0 \in PartBytes(m))
  BY <1>1, <1>2 DEF StateOf
<1>4. 0 \in 0 .. CmdSize[o] - 1
  BY BytesCovered
<1>5. mem[a].exec
  BY <1>3, <1>4, BytesCovered
<1>6. ASSUME NEW b \in Bytes
      PROVE  mem[a].bytes[b] = IF b < CmdSize[o] THEN o ELSE Nil
  <2>1. b \in Nat
    BY PutThenAmAssumption DEF Bytes
  <2>2. b < CmdSize[o] <=> b \in 0 .. CmdSize[o] - 1
    BY <2>1, BytesCovered
  <2>3. b < CmdSize[o] <=> \E m \in MsgsOf(o) : b \in PartBytes(m)
    BY <2>2, BytesCovered
  <2>4. mem[a].bytes[b] = IF \E m \in MsgsOf(o) : b \in PartBytes(m) THEN o ELSE Nil
    BY <1>1, <1>2 DEF StateOf
  <2>5. QED
    BY <2>3, <2>4
<1>7. CommandAt(a) = o
  BY <1>6, BytesCovered DEF CommandAt
<1>8. QED
  BY <1>1, <1>3, <1>5, <1>6, <1>7

\* The queue holds only such commands.
LEMMA QueuedHanded ==
  ASSUME PutInv, NEW a \in Addrs, inbox[a] > 0
  PROVE  \E o \in Ops : Holds(o, a) /\ Handed(o)
<1>1. PICK o \in Ops : Holds(o, a)
  BY DEF PutInv, StatesOK
<1>2. inbox[a] = IF Handed(o) THEN 1 ELSE 0
  BY <1>1 DEF PutInv, StatesOK
<1>3. QED
  BY <1>1, <1>2

LEMMA PutExecuteAndDelete ==
  ASSUME PutInv, NEW a \in Addrs, ExecuteAndDelete(a)
  PROVE  PutInv'
<1>1. PICK o \in Ops : Holds(o, a) /\ Handed(o)
  BY QueuedHanded DEF ExecuteAndDelete
<1>2. inbox[a] = 1 /\ CommandAt(a) = o /\ ran[o] = 0
  BY <1>1, HandedWhole
<1>3. TypeOK /\ HandlersOK /\ StatesOK
  BY DEF PutInv
<1>4. o # Nil
  BY PutThenAmAssumption
<1>5. /\ inbox' = [inbox EXCEPT ![a] = @ - 1] /\ ran' = [ran EXCEPT ![o] = @ + 1]
      /\ mem' = [mem EXCEPT ![a] = Free]
      /\ UNCHANGED <<senderVars, body, handlerVars, table, replyVars>>
  BY <1>2, <1>4 DEF ExecuteAndDelete
<1>6. /\ inbox'[a] = 0 /\ mem'[a] = Free /\ ran'[o] = 1
      /\ \A b \in Addrs : b # a => inbox'[b] = inbox[b] /\ mem'[b] = mem[b]
      /\ \A p \in Ops : p # o => ran'[p] = ran[p]
  BY <1>2, <1>3, <1>5 DEF TypeOK
<1>7. TypeOK'
  <2>1. Free \in States
    <3>1. Blank \in [Bytes -> Ops \cup {Nil}]
      BY DEF Blank
    <3>2. QED
      BY <3>1 DEF Free, States
  <2>2. inbox' \in [Addrs -> Nat] /\ ran' \in [Ops -> Nat] /\ mem' \in [Addrs -> States]
    BY <1>2, <1>3, <1>5, <2>1 DEF TypeOK
  <2>3. QED
    BY <1>3, <1>5, <2>2 DEF TypeOK, senderVars, handlerVars, replyVars
<1>8. /\ pc' = pc /\ ptr' = ptr /\ opt' = opt /\ cb' = cb /\ holder' = holder /\ body' = body
      /\ nonce' = nonce /\ table' = table
  BY <1>5 DEF handlerVars, senderVars
<1>9. SenderOK' /\ NoncesOK'
  BY <1>5, <1>8 DEF PutInv, SenderOK, NoncesOK, senderVars, Over
<1>10. HandlersOK'
  BY <1>3, <1>8 DEF HandlersOK, Looked
<1>11. TableOK'
  BY <1>8, TableKeep DEF Looked, Pending
<1>12. RepliesOK'
  BY <1>5, <1>8 DEF PutInv, RepliesOK, Over, replyVars
<1>13. StatesOK'
  <2>1. \A p \in Ops : Handed(p)' <=> Handed(p)
    BY <1>8 DEF Handed
  <2>2. \A b \in Addrs : ~Holds(o, b)'
    BY <1>6 DEF Holds
  <2>3. \A p \in Ops : p # o => \A b \in Addrs : (Holds(p, b)' <=> Holds(p, b))
    BY <1>6, <1>8 DEF Holds, Looked
  <2>4. \A p \in Ops : p # o => ~Holds(p, a)
    BY <1>1, <1>3 DEF StatesOK
  <2>5. \A p \in Ops, b \in Addrs : b # a => (StateOf(p, mem[b])' <=> StateOf(p, mem[b]))
    BY <1>6, <1>8 DEF StateOf, Counted, Looked, Copied
  <2>6. ASSUME NEW b \in Addrs, b # a, Holds(o, b)
        PROVE  FALSE
    <3>1. PICK m \in MsgsOf(o) : Looked(m) /\ ptr[m] = a
      BY <1>1 DEF Holds
    <3>2. PICK n \in MsgsOf(o) : Looked(n) /\ ptr[n] = b
      BY <2>6 DEF Holds
    <3>3. m \in Msgs /\ m.op = o
      BY MsgFacts
    <3>4. QED
      BY <1>3, <2>6, <3>1, <3>2, <3>3 DEF HandlersOK
  <2>7. ASSUME NEW b \in Addrs
        PROVE  /\ \A p, q \in Ops : Holds(p, b)' /\ Holds(q, b)' => p = q
               /\ \A p \in Ops : Holds(p, b)' => /\ StateOf(p, mem[b])'
                                                 /\ inbox'[b] = IF Handed(p)' THEN 1 ELSE 0
               /\ (\A p \in Ops : ~Holds(p, b)') => mem'[b] = Free /\ inbox'[b] = 0
    <3>1. CASE b = a
      BY <1>6, <2>2, <2>3, <2>4, <3>1
    <3>2. CASE b # a
      <4>1. \A p \in Ops : Holds(p, b)' <=> Holds(p, b)
        BY <2>2, <2>3, <2>6, <3>2
      <4>2. QED
        BY <1>3, <1>6, <2>1, <2>5, <3>2, <4>1 DEF StatesOK
    <3>3. QED
      BY <3>1, <3>2
  <2>8. \A p \in Ops : ran'[p] \in {0, 1} /\ (ran'[p] = 1 => Handed(p)')
    BY <1>1, <1>3, <1>6, <2>1 DEF StatesOK
  <2>9. Free' = Free
    BY DEF Free
  <2>10. QED
    BY <2>7, <2>8, <2>9 DEF StatesOK
<1>14. QED
  BY <1>7, <1>9, <1>10, <1>11, <1>12, <1>13 DEF PutInv

LEMMA PutAmReplyCb ==
  ASSUME PutInv, NEW o \in Ops, AmReplyCb(o)
  PROVE  PutInv'
<1>1. /\ replies[o] > 0 /\ replies' = [replies EXCEPT ![o] = @ - 1]
      /\ fired' = [fired EXCEPT ![o] = @ + 1]
      /\ UNCHANGED <<senderVars, body, handlerVars, targetVars>>
  BY DEF AmReplyCb
<1>2. TypeOK
  BY DEF PutInv
<1>3. replies' \in [Ops -> Nat] /\ fired' \in [Ops -> Nat]
  BY <1>1, <1>2 DEF TypeOK
<1>4. TypeOK'
  BY <1>1, <1>2, <1>3 DEF TypeOK, senderVars, handlerVars, targetVars
<1>5. \A p \in Ops : replies'[p] + fired'[p] = replies[p] + fired[p]
  BY <1>1, <1>2 DEF TypeOK
<1>6. pc' = pc /\ ptr' = ptr /\ opt' = opt /\ cb' = cb /\ holder' = holder
  BY <1>1 DEF handlerVars
<1>7. RepliesOK'
  BY <1>5, <1>6 DEF PutInv, RepliesOK, Over
<1>8. SenderOK' /\ NoncesOK'
  BY <1>1, <1>6 DEF PutInv, SenderOK, NoncesOK, senderVars, Over
<1>9. HandlersOK'
  BY <1>1, <1>6 DEF PutInv, HandlersOK, Looked
<1>10. StatesOK' /\ TableOK'
  BY <1>1, <1>6, StatesKeep, TableKeep DEF senderVars, targetVars, Looked, Copied, Counted, Pending
<1>11. QED
  BY <1>4, <1>7, <1>8, <1>9, <1>10 DEF PutInv

-----------------------------------------------------------------------------
(* The invariant                                                           *)

LEMMA PutStutters ==
  ASSUME PutInv, UNCHANGED vars
  PROVE  PutInv'
<1>1. /\ UNCHANGED <<caller, bumper, nonce, prefix, body, pc, ptr, opt, cb, holder>>
      /\ UNCHANGED <<table, mem, inbox, ran, replies, fired>>
  BY DEF vars, senderVars, handlerVars, targetVars, replyVars
<1>2. TypeOK'
  BY <1>1 DEF PutInv, TypeOK
<1>3. SenderOK' /\ NoncesOK' /\ RepliesOK'
  BY <1>1 DEF PutInv, SenderOK, NoncesOK, RepliesOK, Over
<1>4. HandlersOK'
  BY <1>1 DEF PutInv, HandlersOK, Looked
<1>5. StatesOK' /\ TableOK'
  BY <1>1, StatesKeep, TableKeep DEF Looked, Copied, Counted, Pending
<1>6. QED
  BY <1>2, <1>3, <1>4, <1>5 DEF PutInv

LEMMA PutStep == PutInv /\ [Next]_vars => PutInv'
<1> SUFFICES ASSUME PutInv, [Next]_vars
             PROVE  PutInv'
  OBVIOUS
<1>1. ASSUME NEW o \in Ops, Sender(o)
      PROVE  PutInv'
  BY <1>1, PutBegins, PutSendPacked, PutSendPayload, PutSendCmdPart DEF Sender
<1>2. ASSUME NEW o \in Ops, AmReplyCb(o)
      PROVE  PutInv'
  BY <1>2, PutAmReplyCb
<1>3. ASSUME NEW m \in Msgs, Handler(m)
      PROVE  PutInv'
  BY <1>3, PutPackedCmd, PutPayloadLock, PutPayloadCredit, PutCmdLock, PutCmdCopy, PutCmdCredit,
     PutCmdErase, PutCmdComplete, PutEnqueue, PutReply DEF Handler
<1>4. ASSUME NEW a \in Addrs, ExecuteAndDelete(a)
      PROVE  PutInv'
  BY <1>4, PutExecuteAndDelete
<1>5. CASE Stop \/ UNCHANGED vars
  BY <1>5, PutStutters DEF Stop
<1>6. QED
  BY <1>1, <1>2, <1>3, <1>4, <1>5 DEF Next

\* rma_put_then_am_master_protocol and the three am_long_master_ handlers:
\* whatever the number of puts, the sizes of their commands and the order of
\* their messages, every handler's place agrees with the state it works on,
\* every state belongs to one command, every entry of the table to a command
\* some part of which is still to be counted.
THEOREM PutInvariant == Spec => []PutInv
BY PutInitially, PutStep, PTL DEF Spec

-----------------------------------------------------------------------------
(* What the invariant says of the commands                                 *)

\* A handed command's bytes have landed, and so has its prefix.
LEMMA HandedLanded ==
  ASSUME PutInv, NEW o \in Ops, Handed(o)
  PROVE  Landed(o)
<1>1. PICK m \in MsgsOf(o) : m.kind # "cmd"
  BY MsgsKnown, ZenonT(60)
<1>2. m \in Msgs /\ m.op = o /\ pc[m] \in {"reply", "done"}
  BY <1>1, MsgFacts DEF Handed
<1>3. o \in body
  BY <1>1, <1>2 DEF PutInv, HandlersOK, Looked
<1>4. caller[o] # "idle"
  BY <1>1, <1>2 DEF PutInv, SenderOK
<1>5. QED
  BY <1>3, <1>4 DEF PutInv, SenderOK, Landed

LEMMA PutInvWhole == PutInv => CommandsWhole
<1> SUFFICES ASSUME PutInv, NEW a \in Addrs, inbox[a] > 0
             PROVE  /\ inbox[a] = 1 /\ mem[a].live /\ mem[a].exec
                    /\ \E o \in Ops :
                         /\ Landed(o)
                         /\ \A b \in Bytes : mem[a].bytes[b] = IF b < CmdSize[o] THEN o ELSE Nil
  BY DEF CommandsWhole
<1>1. PICK o \in Ops : Holds(o, a) /\ Handed(o)
  BY QueuedHanded
<1>2. QED
  BY <1>1, HandedWhole, HandedLanded

LEMMA PutInvSafe == PutInv => HandlersSafe
<1> SUFFICES ASSUME PutInv, NEW m \in Msgs, Using(m)
             PROVE  /\ mem[ptr[m]].live
                    /\ inbox[ptr[m]] = 0
                    /\ m.kind # "packed" => mem[ptr[m]].credits <= Total(m.op)
                    /\ \A b \in Bytes : mem[ptr[m]].bytes[b] \in {m.op, Nil}
                    /\ \A n \in Msgs : Using(n) /\ ptr[n] = ptr[m] => n.op = m.op
  BY DEF HandlersSafe
<1>1. ASSUME NEW n \in Msgs, Using(n)
      PROVE  Looked(n) /\ pc[n] \notin {"unsent", "reply", "done"}
  BY <1>1 DEF Using, Looked
<1>2. PICK o \in Ops : o = m.op
  BY MsgFacts
<1>3. PICK a \in Addrs : a = ptr[m] /\ Holds(o, a) /\ StateOf(o, mem[a]) /\ inbox[a] = 0
  BY <1>1, <1>2, HandlerFacts
<1>4. mem[a].live /\ \A b \in Bytes : mem[a].bytes[b] \in {o, Nil}
  BY <1>3 DEF StateOf
<1>5. m.kind # "packed" => mem[a].credits <= Total(o)
  <2>1. SUFFICES ASSUME m.kind # "packed"
                 PROVE  mem[a].credits <= Total(o)
    OBVIOUS
  <2>2. o \in Ops \ Packed
    BY <1>2, <2>1, MsgFacts
  <2>3. PICK C \in SUBSET MsgsOf(o) : mem[a].credits = Credits(C)
    BY <1>3, <2>2 DEF StateOf
  <2>4. QED
    BY <2>2, <2>3, CreditsAdd
<1>6. ASSUME NEW n \in Msgs, Using(n), ptr[n] = a
      PROVE  n.op = o
  <2>1. n.op \in Ops /\ Holds(n.op, a)
    BY <1>1, <1>6, HandlerFacts
  <2>2. QED
    BY <1>3, <2>1 DEF PutInv, StatesOK
<1>7. QED
  BY <1>2, <1>3, <1>4, <1>5, <1>6

\* An entry leads to the state of a command that is being assembled.
LEMMA EntryFacts ==
  ASSUME PutInv, NEW k \in Keys, table[k] # Nil
  PROVE  \E o \in Ops : /\ nonce[o] # Nil /\ Key(o) = k /\ Entered(o)
                        /\ table[k] \in Addrs /\ Holds(o, table[k]) /\ ~Handed(o)
<1>1. PICK o \in Ops : nonce[o] # Nil /\ Key(o) = k /\ Entered(o)
  BY DEF PutInv, TableOK
<1>2. PICK m \in MsgsOf(o) : Looked(m)
  BY <1>1 DEF Entered
<1>3. table[k] = ptr[m]
  BY <1>1, <1>2 DEF PutInv, TableOK
<1>4. ~Handed(o)
  BY <1>1 DEF Entered, Handed, Pending
<1>5. ran[o] = 0
  BY <1>4 DEF PutInv, StatesOK
<1>6. table[k] \in Addrs
  BY DEF PutInv, TypeOK
<1>7. QED
  BY <1>1, <1>2, <1>3, <1>4, <1>5, <1>6 DEF Holds

\* When nothing is under way, a put has been handled to the end or not begun.
LEMMA QuietPuts ==
  ASSUME PutInv, Quiet, NEW o \in Ops
  PROVE  Over(o) \/ \A m \in MsgsOf(o) : pc[m] = "unsent"
<1>1. \A m \in MsgsOf(o) : m \in Msgs /\ pc[m] \in {"unsent", "done"}
  BY MsgFacts DEF Quiet
<1>2. caller[o] \in {"idle", "src_now", "src_cb"}
  BY DEF Quiet
<1>3. QED
  BY <1>1, <1>2 DEF PutInv, SenderOK, Over

LEMMA PutInvTable == PutInv => TableExact
<1> SUFFICES ASSUME PutInv
             PROVE  TableExact
  OBVIOUS
<1>1. ASSUME NEW k \in Keys, table[k] # Nil
      PROVE  /\ mem[table[k]].live
             /\ inbox[table[k]] = 0
             /\ \E m \in Msgs : nonce[m.op] # Nil /\ Key(m.op) = k /\ pc[m] # "done"
  <2>1. PICK o \in Ops : /\ nonce[o] # Nil /\ Key(o) = k /\ Entered(o)
                         /\ table[k] \in Addrs /\ Holds(o, table[k]) /\ ~Handed(o)
    BY <1>1, EntryFacts
  <2>2. StateOf(o, mem[table[k]]) /\ inbox[table[k]] = 0
    BY <2>1 DEF PutInv, StatesOK
  <2>3. PICK m \in MsgsOf(o) : Pending(m)
    BY <2>1 DEF Entered
  <2>4. m \in Msgs /\ m.op = o /\ pc[m] # "done"
    BY <2>3, MsgFacts DEF Pending
  <2>5. QED
    BY <2>1, <2>2, <2>4 DEF StateOf
<1>2. ASSUME NEW j \in Keys, NEW k \in Keys, table[j] = table[k], table[j] # Nil
      PROVE  j = k
  <2>1. PICK o \in Ops : Key(o) = j /\ table[j] \in Addrs /\ Holds(o, table[j])
    BY <1>2, EntryFacts
  <2>2. PICK p \in Ops : Key(p) = k /\ Holds(p, table[k])
    BY <1>2, EntryFacts
  <2>3. o = p
    BY <1>2, <2>1, <2>2 DEF PutInv, StatesOK
  <2>4. QED
    BY <2>1, <2>2, <2>3
<1>3. ASSUME Quiet
      PROVE  table = [k \in Keys |-> Nil] /\ mem = [a \in Addrs |-> Free]
  <2>1. ASSUME NEW k \in Keys, table[k] # Nil
        PROVE  FALSE
    <3>1. PICK o \in Ops : Entered(o)
      BY <2>1, EntryFacts
    <3>2. QED
      BY <1>3, <3>1, QuietPuts DEF Entered, Over, Pending, Looked
  <2>2. ASSUME NEW a \in Addrs, NEW o \in Ops, Holds(o, a)
        PROVE  FALSE
    <3>1. PICK m \in MsgsOf(o) : Looked(m)
      BY <2>2 DEF Holds
    <3>2. Over(o)
      BY <1>3, <3>1, QuietPuts DEF Looked
    <3>3. Handed(o)
      BY <3>2 DEF Over, Handed
    <3>4. inbox[a] = 1
      BY <2>2, <3>3, HandedWhole
    <3>5. QED
      BY <1>3, <3>4 DEF Quiet
  <2>3. \A a \in Addrs : mem[a] = Free
    BY <2>2 DEF PutInv, StatesOK
  <2>4. table \in [Keys -> Addrs \cup {Nil}] /\ mem \in [Addrs -> States]
    BY DEF PutInv, TypeOK
  <2>5. QED
    BY <2>1, <2>3, <2>4
<1>4. QED
  BY <1>1, <1>2, <1>3 DEF TableExact

\* Reassembly is exact for every set of puts: what the master persona runs is
\* whole and landed, no handler touches a state that was handed over, freed or
\* another command's, and the table keeps no entry to such a state.
THEOREM CommandsReassembled == Spec => []ReassemblyExact
<1>1. PutInv => ReassemblyExact
  BY PutInvWhole, PutInvSafe, PutInvTable DEF ReassemblyExact, PutInv
<1>2. QED
  BY <1>1, PutInvariant, PTL

-----------------------------------------------------------------------------
(* The refinement of RemoteCompletion                                      *)

HandedOps == {o \in Ops : ran[o] > 0 \/ \E a \in Addrs : inbox[a] > 0 /\ CommandAt(a) = o}
LandedOps == {o \in Ops : Landed(o)}

\* The commands that have run or are queued are those handed over.
LEMMA HandedSet == PutInv => \A o \in Ops : o \in HandedOps <=> Handed(o)
<1> SUFFICES ASSUME PutInv, NEW o \in Ops
             PROVE  o \in HandedOps <=> Handed(o)
  OBVIOUS
<1>1. CASE ran[o] > 0
  BY <1>1 DEF PutInv, StatesOK, HandedOps
<1>2. ASSUME NEW a \in Addrs, inbox[a] > 0, CommandAt(a) = o
      PROVE  Handed(o)
  <2>1. PICK p \in Ops : Holds(p, a) /\ Handed(p)
    BY <1>2, QueuedHanded
  <2>2. p = o
    BY <1>2, <2>1, HandedWhole
  <2>3. QED
    BY <2>1, <2>2
<1>3. ASSUME Handed(o), ~(ran[o] > 0)
      PROVE  o \in HandedOps
  <2>1. PICK m \in MsgsOf(o) : m.kind # "cmd"
    BY MsgsKnown, ZenonT(60)
  <2>2. m \in Msgs /\ Looked(m) /\ ran[o] = 0
    BY <1>3, <2>1, MsgFacts DEF Handed, Looked, PutInv, StatesOK
  <2>3. ptr[m] \in Addrs
    BY <2>2 DEF PutInv, HandlersOK, TypeOK, Looked
  <2>4. Holds(o, ptr[m])
    BY <2>1, <2>2 DEF Holds
  <2>5. inbox[ptr[m]] = 1 /\ CommandAt(ptr[m]) = o
    BY <1>3, <2>3, <2>4, HandedWhole
  <2>6. QED
    BY <2>3, <2>5 DEF HandedOps
<1>4. QED
  BY <1>1, <1>2, <1>3 DEF HandedOps

LEMMA HandedSetNext == PutInv' => \A o \in Ops : o \in HandedOps' <=> Handed(o)'
<1>1. (PutInv => \A o \in Ops : o \in HandedOps <=> Handed(o))'
  BY HandedSet, PTL
<1>2. QED
  BY <1>1

\* A handler's step that queues no command hands none over.
LEMMA HandsNone ==
  ASSUME PutInv, PutInv', NEW m \in Msgs, pc[m] \notin {"unsent", "reply", "done"},
         inbox' = inbox, ran' = ran,
         \A n \in Msgs : n # m => pc'[n] = pc[n] /\ ptr'[n] = ptr[n]
  PROVE  \A p \in Ops : Handed(p)' <=> Handed(p)
<1>0. PICK o \in Ops : o = m.op
  BY MsgFacts
<1>1. ~Handed(o) /\ ran[o] = 0
  BY <1>0, HandlerFacts
<1>2. ASSUME NEW p \in Ops, p # o
      PROVE  \A n \in MsgsOf(p) : pc'[n] = pc[n] /\ ptr'[n] = ptr[n]
  BY <1>0, <1>2, MsgFacts
<1>3. ASSUME Handed(o)'
      PROVE  FALSE
  <2>1. PICK n \in MsgsOf(o) : n.kind # "cmd"
    BY MsgsKnown
  <2>2. n \in Msgs /\ Looked(n)'
    BY <1>3, <2>1, MsgFacts DEF Handed, Looked
  <2>3. PICK a \in Addrs : a = ptr'[n]
    BY <2>2 DEF PutInv, HandlersOK, TypeOK, Looked
  <2>4. Holds(o, a)'
    BY <1>1, <2>1, <2>2, <2>3 DEF Holds
  <2>5. inbox[a] = 1
    BY <1>3, <2>4 DEF PutInv, StatesOK
  <2>6. PICK p \in Ops : Holds(p, a) /\ Handed(p)
    BY <2>5, QueuedHanded
  <2>7. p # o
    BY <1>1, <2>6
  <2>8. Holds(p, a)'
    BY <1>2, <2>6, <2>7 DEF Holds, Looked
  <2>9. QED
    BY <2>4, <2>7, <2>8 DEF PutInv, StatesOK
<1>4. QED
  BY <1>1, <1>2, <1>3 DEF Handed

LEMMA PutStutter ==
  ASSUME PutInv, PutInv', ran' = ran, fired' = fired,
         \A p \in Ops : Handed(p)' <=> Handed(p), \A p \in Ops : Landed(p)' <=> Landed(p)
  PROVE  UNCHANGED Promise!vars
<1>1. HandedOps' = HandedOps
  <2>1. \A p \in Ops : p \in HandedOps' <=> p \in HandedOps
    BY HandedSet, HandedSetNext
  <2>2. HandedOps' \subseteq Ops /\ HandedOps \subseteq Ops
    BY DEF HandedOps
  <2>3. QED
    BY <2>1, <2>2
<1>2. LandedOps' = LandedOps
  BY DEF LandedOps
<1>3. QED
  BY <1>1, <1>2 DEF Promise!vars, HandedOps, LandedOps

LEMMA SenderPromised ==
  ASSUME PutInv, PutInv', NEW o \in Ops, Sender(o)
  PROVE  UNCHANGED Promise!vars
<1>1. ran' = ran /\ fired' = fired /\ body' = body
  BY DEF Sender, PutPrefix, SkipPrefix, SendPacked, SendPayload, SendCmdPart, targetVars, replyVars
<1>2. TypeOK
  BY DEF PutInv
<1>3. \A n \in Msgs : pc'[n] = pc[n] \/ (pc[n] = "unsent" /\ pc'[n] = "flight")
  <2>1. CASE PutPrefix(o) \/ SkipPrefix(o)
    BY <2>1 DEF PutPrefix, SkipPrefix, handlerVars
  <2>2. ASSUME NEW m \in MsgsOf(o), pc[m] = "unsent", pc' = [pc EXCEPT ![m] = "flight"]
        PROVE  \A n \in Msgs : pc'[n] = pc[n] \/ (pc[n] = "unsent" /\ pc'[n] = "flight")
    BY <1>2, <2>2 DEF TypeOK
  <2>3. CASE SendPacked(o)
    <3>1. PICK m \in MsgsOf(o) : m = [op |-> o, kind |-> "packed", off |-> 0]
      BY <2>3, MsgsKnown DEF SendPacked
    <3>2. pc[m] = "unsent"
      BY <2>3 DEF PutInv, SenderOK, SendPacked
    <3>3. QED
      BY <2>2, <2>3, <3>1, <3>2 DEF SendPacked
  <2>4. CASE SendPayload(o)
    <3>1. PICK m \in MsgsOf(o) : m = [op |-> o, kind |-> "payload", off |-> 0]
      BY <2>4, MsgsKnown DEF SendPayload
    <3>2. pc[m] = "unsent"
      BY <2>4 DEF PutInv, SenderOK, SendPayload
    <3>3. QED
      BY <2>2, <2>4, <3>1, <3>2 DEF SendPayload
  <2>5. CASE SendCmdPart(o)
    BY <2>2, <2>5 DEF SendCmdPart
  <2>6. QED
    BY <2>1, <2>3, <2>4, <2>5 DEF Sender
<1>4. \A p \in Ops : Handed(p)' <=> Handed(p)
  BY <1>3, MsgFacts DEF Handed
<1>5. \A p \in Ops : Landed(p)' <=> Landed(p)
  <2>1. CASE PutPrefix(o)
    <3>1. PICK m \in MsgsOf(o) : m.kind # "cmd"
      BY MsgsKnown, ZenonT(60)
    <3>2. m \in Msgs /\ m.op = o /\ pc[m] = "unsent"
      BY <2>1, <3>1, MsgFacts DEF PutPrefix, MayBegin, PutInv, SenderOK
    <3>3. o \notin body
      BY <3>1, <3>2 DEF PutInv, HandlersOK, Looked
    <3>4. QED
      BY <1>1, <2>1, <3>3 DEF PutPrefix, Landed
  <2>2. CASE ~PutPrefix(o)
    <3>1. prefix' = prefix
      BY <2>2 DEF Sender, SkipPrefix, SendPacked, SendPayload, SendCmdPart
    <3>2. QED
      BY <1>1, <3>1 DEF Landed
  <2>3. QED
    BY <2>1, <2>2
<1>6. QED
  BY <1>1, <1>4, <1>5, PutStutter

\* The two handlers in which the bytes of a put land.
LEMMA LandPromised ==
  ASSUME PutInv, PutInv', NEW m \in Msgs, PackedCmd(m) \/ PayloadLock(m)
  PROVE  Promise!Next
<1>0. PICK o \in Ops : o = m.op
  BY MsgFacts
<1>1. /\ pc[m] = "flight" /\ m.kind # "cmd" /\ body' = body \cup {o}
      /\ \E a \in Addrs : ptr' = [ptr EXCEPT ![m] = a]
      /\ \E c : pc' = [pc EXCEPT ![m] = c]
      /\ UNCHANGED <<senderVars, inbox, ran, replyVars>>
  BY <1>0 DEF PackedCmd, PayloadLock
<1>2. \A n \in Msgs : n # m => pc'[n] = pc[n] /\ ptr'[n] = ptr[n]
  BY <1>1 DEF PutInv, TypeOK
<1>3. \A p \in Ops : Handed(p)' <=> Handed(p)
  BY <1>1, <1>2, HandsNone
<1>4. HandedOps' = HandedOps
  <2>1. \A p \in Ops : p \in HandedOps' <=> p \in HandedOps
    BY <1>3, HandedSet, HandedSetNext
  <2>2. HandedOps' \subseteq Ops /\ HandedOps \subseteq Ops
    BY DEF HandedOps
  <2>3. QED
    BY <2>1, <2>2
<1>5. o \notin body
  BY <1>0, <1>1 DEF PutInv, HandlersOK, Looked
<1>6. o \in Long => o \in prefix
  BY <1>0, <1>1, MsgFacts DEF PutInv, SenderOK
<1>7. o \in Ops \ LandedOps /\ LandedOps' = LandedOps \cup {o}
  BY <1>1, <1>5, <1>6 DEF LandedOps, Landed, senderVars
<1>8. Promise!Land(o)
  BY <1>1, <1>4, <1>7 DEF Promise!Land, HandedOps, LandedOps, replyVars
<1>9. QED
  BY <1>8 DEF Promise!Next

LEMMA HandPromised ==
  ASSUME PutInv, PutInv', NEW m \in Msgs, Enqueue(m)
  PROVE  Promise!Next
<1>0. PICK o \in Ops : o = m.op
  BY MsgFacts
<1>1. /\ pc[m] = "enqueue" /\ pc' = [pc EXCEPT ![m] = "reply"]
      /\ UNCHANGED <<senderVars, body, ptr, ran, replyVars>>
  BY DEF Enqueue
<1>2. \A n \in Msgs : pc'[n] = IF n = m THEN "reply" ELSE pc[n]
  BY <1>1, MoveFacts
<1>3. ~Handed(o) /\ \A n \in MsgsOf(o) : n = m \/ pc[n] = "done"
  BY <1>0, <1>1, HandlerFacts DEF PutInv, HandlersOK
<1>4. Handed(o)' /\ \A p \in Ops : p # o => (Handed(p)' <=> Handed(p))
  BY <1>0, <1>2, <1>3, MsgFacts DEF Handed
<1>5. o \notin HandedOps /\ HandedOps' = HandedOps \cup {o}
  <2>1. o \notin HandedOps /\ \A p \in Ops : p \in HandedOps' <=> p \in HandedOps \cup {o}
    BY <1>3, <1>4, HandedSet, HandedSetNext
  <2>2. HandedOps' \subseteq Ops /\ HandedOps \subseteq Ops
    BY DEF HandedOps
  <2>3. QED
    BY <2>1, <2>2
<1>6. Landed(o)
  <2>1. PICK n \in MsgsOf(o) : n.kind # "cmd"
    BY MsgsKnown, ZenonT(60)
  <2>2. n \in Msgs /\ n.op = o /\ pc[n] \notin {"unsent", "flight"}
    BY <1>1, <1>3, <2>1, MsgFacts
  <2>3. QED
    BY <2>1, <2>2 DEF PutInv, SenderOK, HandlersOK, Looked, Landed
<1>7. LandedOps' = LandedOps /\ o \in LandedOps
  BY <1>1, <1>6 DEF LandedOps, Landed, senderVars
<1>8. Promise!Hand(o)
  BY <1>1, <1>5, <1>7 DEF Promise!Hand, HandedOps, LandedOps, replyVars
<1>9. QED
  BY <1>8 DEF Promise!Next

\* The other steps of the handlers are not seen from outside.
LEMMA HandlerPromised ==
  ASSUME PutInv, PutInv', NEW m \in Msgs, Handler(m)
  PROVE  Promise!Next \/ UNCHANGED Promise!vars
<1>1. CASE PackedCmd(m) \/ PayloadLock(m) \/ Enqueue(m)
  BY <1>1, LandPromised, HandPromised
<1>2. CASE Reply(m)
  <2>1. /\ pc[m] = "reply" /\ pc' = [pc EXCEPT ![m] = "done"]
        /\ UNCHANGED <<senderVars, body, ran, fired>>
    BY <1>2 DEF Reply, targetVars
  <2>2. \A p \in Ops : Handed(p)' <=> Handed(p)
    BY <2>1, MoveFacts, MsgFacts DEF Handed
  <2>3. \A p \in Ops : Landed(p)' <=> Landed(p)
    BY <2>1 DEF Landed, senderVars
  <2>4. QED
    BY <2>1, <2>2, <2>3, PutStutter
<1>3. CASE \/ PayloadCredit(m) \/ CmdLock(m) \/ CmdCopy(m) \/ CmdCredit(m) \/ CmdErase(m)
           \/ CmdComplete(m)
  <2>1. /\ pc[m] \notin {"unsent", "reply", "done"}
        /\ UNCHANGED <<senderVars, body, inbox, ran, fired>>
    BY <1>3 DEF PayloadCredit, CmdLock, CmdCopy, CmdCredit, CmdErase, CmdComplete, targetVars, replyVars
  <2>2. /\ \E c : pc' = [pc EXCEPT ![m] = c]
        /\ ptr' = ptr \/ \E a : ptr' = [ptr EXCEPT ![m] = a]
    BY <1>3 DEF PayloadCredit, CmdLock, CmdCopy, CmdCredit, CmdErase, CmdComplete
  <2>3. \A n \in Msgs : n # m => pc'[n] = pc[n] /\ ptr'[n] = ptr[n]
    BY <2>2 DEF PutInv, TypeOK
  <2>4. \A p \in Ops : Handed(p)' <=> Handed(p)
    BY <2>1, <2>3, HandsNone
  <2>5. \A p \in Ops : Landed(p)' <=> Landed(p)
    BY <2>1 DEF Landed, senderVars
  <2>6. QED
    BY <2>1, <2>4, <2>5, PutStutter
<1>4. QED
  BY <1>1, <1>2, <1>3 DEF Handler

LEMMA RunPromised ==
  ASSUME PutInv, PutInv', NEW a \in Addrs, ExecuteAndDelete(a)
  PROVE  Promise!Next
<1>1. PICK o \in Ops : Holds(o, a) /\ Handed(o)
  BY QueuedHanded DEF ExecuteAndDelete
<1>2. CommandAt(a) = o /\ ran[o] = 0 /\ o # Nil
  BY <1>1, HandedWhole, PutThenAmAssumption
<1>3. /\ ran' = [ran EXCEPT ![o] = @ + 1]
      /\ UNCHANGED <<senderVars, body, handlerVars, replyVars>>
  BY <1>2 DEF ExecuteAndDelete
<1>4. ran' = [ran EXCEPT ![o] = 1]
  BY <1>2, <1>3 DEF PutInv, TypeOK
<1>5. HandedOps' = HandedOps
  <2>1. \A p \in Ops : Handed(p)' <=> Handed(p)
    BY <1>3 DEF Handed, handlerVars
  <2>2. \A p \in Ops : p \in HandedOps' <=> p \in HandedOps
    BY <2>1, HandedSet, HandedSetNext
  <2>3. HandedOps' \subseteq Ops /\ HandedOps \subseteq Ops
    BY DEF HandedOps
  <2>4. QED
    BY <2>2, <2>3
<1>6. LandedOps' = LandedOps
  BY <1>3 DEF LandedOps, Landed, senderVars
<1>7. o \in HandedOps
  BY <1>1, HandedSet
<1>8. Promise!Run(o)
  BY <1>2, <1>3, <1>4, <1>5, <1>6, <1>7 DEF Promise!Run, HandedOps, LandedOps, replyVars
<1>9. QED
  BY <1>8 DEF Promise!Next

LEMMA TellPromised ==
  ASSUME PutInv, PutInv', NEW o \in Ops, AmReplyCb(o)
  PROVE  Promise!Next
<1>1. /\ replies[o] > 0 /\ fired' = [fired EXCEPT ![o] = @ + 1]
      /\ UNCHANGED <<senderVars, body, handlerVars, targetVars>>
  BY DEF AmReplyCb
<1>2. replies[o] \in Nat /\ fired[o] \in Nat /\ fired \in [Ops -> Nat]
  BY DEF PutInv, TypeOK
<1>3. replies[o] + fired[o] = IF o \in Replying /\ Over(o) THEN 1 ELSE 0
  BY DEF PutInv, RepliesOK
<1>4. o \in Replying /\ Over(o) /\ fired[o] = 0
  BY <1>1, <1>2, <1>3
<1>5. fired' = [fired EXCEPT ![o] = 1]
  BY <1>1, <1>2, <1>4
<1>6. o \in HandedOps
  BY <1>4, HandedSet DEF Over, Handed
<1>7. HandedOps' = HandedOps /\ LandedOps' = LandedOps /\ ran' = ran
  BY <1>1 DEF HandedOps, LandedOps, Landed, CommandAt, targetVars, senderVars
<1>8. Promise!Tell(o)
  BY <1>4, <1>5, <1>6, <1>7 DEF Promise!Tell, HandedOps, LandedOps
<1>9. QED
  BY <1>8 DEF Promise!Next

LEMMA PutStepPromised ==
  PutInv /\ PutInv' /\ [Next]_vars => [Promise!Next]_(Promise!vars)
<1> SUFFICES ASSUME PutInv, PutInv', [Next]_vars
             PROVE  Promise!Next \/ UNCHANGED Promise!vars
  OBVIOUS
<1>1. CASE \E o \in Ops : Sender(o)
  BY <1>1, SenderPromised
<1>2. CASE \E o \in Ops : AmReplyCb(o)
  BY <1>2, TellPromised
<1>3. CASE \E m \in Msgs : Handler(m)
  BY <1>3, HandlerPromised
<1>4. CASE \E a \in Addrs : ExecuteAndDelete(a)
  BY <1>4, RunPromised
<1>5. CASE Stop \/ UNCHANGED vars
  BY <1>5 DEF Stop, vars, senderVars, handlerVars, targetVars, replyVars, Promise!vars,
     Landed, CommandAt
<1>6. QED
  BY <1>1, <1>2, <1>3, <1>4, <1>5 DEF Next

\* Seen from outside, whatever the messages do on their way, a put with remote
\* completion lands before its rpc is handed over, runs it at most once, and
\* answers at most once and only afterwards.
THEOREM PutKeepsPromise == Spec => KeepsPromise
<1>1. Init => Promise!Init
  <2>1. SUFFICES ASSUME Init
                 PROVE  Promise!Init
    OBVIOUS
  <2>2. LandedOps = {} /\ HandedOps = {}
    BY <2>1 DEF Init, LandedOps, HandedOps, Landed
  <2>3. QED
    BY <2>1, <2>2 DEF Init, Promise!Init, LandedOps, HandedOps
<1>2. QED
  BY <1>1, PutInvariant, PutStepPromised, PTL DEF Spec, KeepsPromise, Promise!Spec
==============================================================================
