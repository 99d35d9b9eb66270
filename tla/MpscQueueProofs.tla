--------------------------- MODULE MpscQueueProofs ---------------------------
(***************************************************************************)
(* QueueInv is an inductive invariant of MpscQueue for any entries,        *)
(* producers and budgets; memory safety and the FIFO refinement follow.    *)
(***************************************************************************)
EXTENDS MpscQueue, TLAPS

USE QueueAssumption DEF Cells

LEMMA InitInv == Init => QueueInv
  BY DEF Init, QueueInv, TypeOK, OrderOK, TailOK, Reachable, ProducersOK,
         ConsumerOK, ConsumerLocs

LEMMA BeginInv ==
  ASSUME QueueInv, NEW t \in Producers, NEW x \in Entries, EnqueueBegin(t, x)
  PROVE  QueueInv'
<1> USE DEF EnqueueBegin, QueueInv, consVars, ConsumerLocs
<1>1. TypeOK'
  BY DEF TypeOK
<1>2. OrderOK' /\ ConsumerOK'
  BY DEF TypeOK, OrderOK, ConsumerOK
<1>3. TailOK'
  BY DEF TypeOK, OrderOK, TailOK
<1>4. Reachable'
  BY DEF TypeOK, OrderOK, Reachable, PredCell, Held, Pending
<1>5. ProducersOK'
  BY SMTT(60) DEF TypeOK, OrderOK, ProducersOK, PredCell, Held
<1>6. QED
  BY <1>1, <1>2, <1>3, <1>4, <1>5

LEMMA ExchangeInv ==
  ASSUME QueueInv, NEW t \in Producers, EnqueueExchange(t)
  PROVE  QueueInv'
<1> USE DEF EnqueueExchange, QueueInv, consVars, ConsumerLocs
<1>0. /\ item[t] \in Entries
      /\ order' = Append(order, item[t]) /\ Len(order') = Len(order) + 1
      /\ order'[Len(order) + 1] = item[t]
      /\ \A i \in 1..Len(order) : order'[i] = order[i]
  BY DEF TypeOK, ProducersOK
<1>1. TypeOK'
  BY <1>0 DEF TypeOK
<1>2. OrderOK'
  BY <1>0, <1>1 DEF TypeOK, OrderOK, ProducersOK
<1>2a. ConsumerOK'
  BY <1>0, <1>1 DEF TypeOK, OrderOK, ConsumerOK
<1>3. TailOK'
  BY <1>0, <1>1, <1>2 DEF TypeOK, OrderOK, TailOK, ProducersOK
<1>4. Reachable'
  BY <1>0, <1>1, <1>2 DEF TypeOK, OrderOK, TailOK, Reachable, PredCell, Held, Pending
<1>5. ProducersOK'
  <2>1. ASSUME NEW u \in Producers, ppc'[u] = "link"
        PROVE  \E i \in 1..Len(order') :
                 /\ item'[u] = order'[i] /\ got'[u] = PredCell(i)'
                 /\ link'[got'[u]] = Null /\ ~(i = 1 /\ Held)'
    <3>1. CASE u = t
      <4>0. PICK k \in 1..Len(order') : k = Len(order) + 1
        BY <1>0 DEF TypeOK
      <4>1. got'[t] = tail /\ item'[t] = order'[k]
        BY <1>0, <4>0 DEF TypeOK
      <4>2. PredCell(k)' = tail
        BY <1>0, <4>0 DEF TypeOK, OrderOK, TailOK, PredCell
      <4>3. link'[tail] = Null
        BY DEF TypeOK, OrderOK, TailOK
      <4>4. ~(k = 1 /\ Held)'
        BY <4>0 DEF TypeOK, ConsumerOK, Held
      <4>5. QED
        BY <3>1, <4>0, <4>1, <4>2, <4>3, <4>4
    <3>2. CASE u # t
      BY <2>1, <3>2, <1>0, <1>1 DEF TypeOK, OrderOK, ProducersOK, PredCell, Held
    <3>3. QED
      BY <3>1, <3>2
  <2>2. ASSUME NEW u \in Producers, ppc'[u] = "swap"
        PROVE  /\ item'[u] \in Entries \ free' /\ link'[item'[u]] = Null
               /\ \A i \in 1..Len(order') : order'[i] # item'[u]
    BY <2>2, <1>0, <1>1 DEF TypeOK, ProducersOK
  <2>3. \A u, v \in Producers :
          ppc'[u] # "idle" /\ ppc'[v] # "idle" /\ item'[u] = item'[v] => u = v
    BY DEF TypeOK, ProducersOK
  <2>4. QED
    BY <2>1, <2>2, <2>3 DEF ProducersOK
<1>6. QED
  BY <1>1, <1>2, <1>2a, <1>3, <1>4, <1>5

LEMMA LinkInv ==
  ASSUME QueueInv, NEW t \in Producers, EnqueueLink(t)
  PROVE  QueueInv'
<1> USE DEF EnqueueLink, QueueInv, consVars, ConsumerLocs
<1>0. PICK k \in 1..Len(order) :
         /\ item[t] = order[k]
         /\ got[t] = PredCell(k)
         /\ link[got[t]] = Null
         /\ ~(k = 1 /\ Held)
  BY DEF ProducersOK
<1>1. TypeOK'
  BY <1>0 DEF TypeOK, PredCell
<1>2. OrderOK'
  BY <1>0, <1>1 DEF TypeOK, OrderOK
<1>2a. ConsumerOK'
  BY <1>0, <1>1 DEF TypeOK, OrderOK, ConsumerOK, PredCell, Held
<1>3. TailOK'
  BY <1>0, <1>1, <1>2 DEF TypeOK, OrderOK, TailOK, PredCell, Held
<1>4. Reachable'
  BY <1>0, <1>1, <1>2, SMTT(60) DEF TypeOK, OrderOK, Reachable, PredCell, Held, Pending
<1>5. ProducersOK'
  <2>1. ASSUME NEW u \in Producers, ppc'[u] = "link"
        PROVE  \E i \in 1..Len(order') :
                 /\ item'[u] = order'[i] /\ got'[u] = PredCell(i)'
                 /\ link'[got'[u]] = Null /\ ~(i = 1 /\ Held)'
    <3>1. u # t /\ ppc[u] = "link" /\ item[u] # item[t]
      BY <2>1 DEF TypeOK, ProducersOK
    <3>2. PICK i \in 1..Len(order) : /\ item[u] = order[i] /\ got[u] = PredCell(i)
                                     /\ link[got[u]] = Null /\ ~(i = 1 /\ Held)
      BY <3>1 DEF ProducersOK
    <3>3. i # k
      BY <3>1, <3>2, <1>0
    <3>4. PredCell(i) # PredCell(k)
      BY <3>2, <3>3, <1>0 DEF PredCell, OrderOK, TypeOK, Held
    <3>5. QED
      BY <3>1, <3>2, <3>4, <1>0, <1>1 DEF PredCell, TypeOK, Held
  <2>2. ASSUME NEW u \in Producers, ppc'[u] = "swap"
        PROVE  /\ item'[u] \in Entries \ free' /\ link'[item'[u]] = Null
               /\ \A i \in 1..Len(order') : order'[i] # item'[u]
    BY <2>2, <1>0, <1>1 DEF TypeOK, ProducersOK, PredCell, OrderOK, Held
  <2>3. \A u, v \in Producers :
          ppc'[u] # "idle" /\ ppc'[v] # "idle" /\ item'[u] = item'[v] => u = v
    BY DEF TypeOK, ProducersOK
  <2>4. QED
    BY <2>1, <2>2, <2>3 DEF ProducersOK
<1>6. QED
  BY <1>1, <1>2, <1>2a, <1>3, <1>4, <1>5

-----------------------------------------------------------------------------
(* The consumer's steps that run nothing.                                  *)

LEMMA QuietInv ==
  ASSUME QueueInv,
         \/ \E n \in Budgets : BurstBegin(n)
         \/ BurstScanEnd \/ BurstPublish \/ BurstReset
         \/ DequeueBegin \/ DequeueLoad \/ DequeueSpin
  PROVE  QueueInv'
<1> USE DEF QueueInv, prodVars, ConsumerLocs, RunNothing
<1>1. CASE \E n \in Budgets : BurstBegin(n)
  BY <1>1 DEF BurstBegin, TypeOK, OrderOK, TailOK, Reachable, ProducersOK,
              ConsumerOK, PredCell, Held, Pending
<1>2. CASE BurstScanEnd
  BY <1>2 DEF BurstScanEnd, TypeOK, OrderOK, TailOK, Reachable, ProducersOK,
              ConsumerOK, PredCell, Held, Pending
<1>3. CASE BurstPublish
  BY <1>3 DEF BurstPublish, TypeOK, OrderOK, TailOK, Reachable, ProducersOK,
              ConsumerOK, PredCell, Held, Pending
<1>4. CASE BurstReset
  BY <1>4 DEF BurstReset, TypeOK, OrderOK, TailOK, Reachable, ProducersOK,
              ConsumerOK, PredCell, Held, Pending
<1>5. CASE DequeueBegin
  BY <1>5 DEF DequeueBegin, TypeOK, OrderOK, TailOK, Reachable, ProducersOK,
              ConsumerOK, PredCell, Held, Pending
<1>6. CASE DequeueLoad
  BY <1>6 DEF DequeueLoad, TypeOK, OrderOK, TailOK, Reachable, ProducersOK,
              ConsumerOK, PredCell, Held, Pending
<1>7. CASE DequeueSpin
  BY <1>7 DEF DequeueSpin, TypeOK, OrderOK, TailOK, Reachable, ProducersOK,
              ConsumerOK, PredCell, Held, Pending
<1>8. QED
  BY <1>1, <1>2, <1>3, <1>4, <1>5, <1>6, <1>7
-----------------------------------------------------------------------------
(* The step that detaches the list, and those that run the oldest entry.   *)

LEMMA TakeInv ==
  ASSUME QueueInv, BurstTake
  PROVE  QueueInv'
<1> USE DEF BurstTake, QueueInv, prodVars, ConsumerLocs
<1>1. TypeOK' /\ OrderOK' /\ TailOK' /\ ConsumerOK'
  BY DEF TypeOK, OrderOK, TailOK, ConsumerOK
<1>2. Reachable'
  BY DEF TypeOK, OrderOK, Reachable, PredCell, Held, Pending
<1>3. ProducersOK'
  BY DEF TypeOK, OrderOK, ProducersOK, PredCell, Held
<1>4. QED
  BY <1>1, <1>2, <1>3

(* What running the oldest entry does to the history.                      *)
LEMMA RunShifts ==
  ASSUME TypeOK, OrderOK, ConsumerOK, cpc # "idle", Run(p)
  PROVE  /\ p \in Entries /\ p = order[1]
         /\ order' \in Seq(Entries) /\ Len(order') = Len(order) - 1 /\ Len(order) > 0
         /\ \A i \in 1..Len(order') : order'[i] = order[i + 1] /\ order'[i] # p
         /\ \A i \in 1..Len(order') : order'[i] \notin free'
         /\ \A i, j \in 1..Len(order') : order'[i] = order'[j] => i = j
         /\ free' \subseteq Entries /\ ndet' \in Nat /\ ran' \in Entries
         /\ ndet' = IF ndet > 0 THEN ndet - 1 ELSE 0
<1>1. p = order[1] /\ order # <<>> /\ p \in Entries
  BY DEF TypeOK, ConsumerOK
<1>2. /\ order' \in Seq(Entries) /\ Len(order') = Len(order) - 1 /\ Len(order) > 0
      /\ \A i \in 1..Len(order') : order'[i] = order[i + 1]
  BY <1>1 DEF TypeOK, Run
<1>3. \A i \in 1..Len(order') : order'[i] # p
  BY <1>1, <1>2 DEF OrderOK, TypeOK
<1>4. \A i \in 1..Len(order') : order'[i] \notin free'
  BY <1>1, <1>2, <1>3 DEF OrderOK, TypeOK, Run
<1>5. \A i, j \in 1..Len(order') : order'[i] = order'[j] => i = j
  BY <1>2 DEF OrderOK, TypeOK
<1>6. QED
  BY <1>1, <1>2, <1>3, <1>4, <1>5 DEF TypeOK, Run

(* The cell that leads to an entry does not change when the entry before   *)
(* it in the history runs, except at the front of the attached list.       *)
LEMMA PredShifts ==
  ASSUME TypeOK, OrderOK, ConsumerOK, cpc # "idle", Run(p),
         NEW i \in 1..Len(order'), NEW j \in 1..Len(order), j = i + 1,
         i # 1 \/ ndet = 1
  PROVE  PredCell(i)' = PredCell(j) /\ order'[i] = order[j]
<1>1. /\ order' \in Seq(Entries) /\ Len(order') = Len(order) - 1 /\ Len(order) \in Nat
      /\ \A k \in 1..Len(order') : order'[k] = order[k + 1]
      /\ ndet \in Nat /\ ndet' = IF ndet > 0 THEN ndet - 1 ELSE 0
  BY RunShifts DEF TypeOK
<1>2. order'[i] = order[j]
  BY <1>1
<1>3. i = ndet' + 1 => j = ndet + 1
  BY <1>1
<1>4. j = ndet + 1 => i = ndet' + 1
  BY <1>1
<1>5. i # ndet' + 1 => order'[i - 1] = order[j - 1]
  <2>1. ASSUME i # ndet' + 1  PROVE i - 1 \in 1..Len(order')
    BY <1>1, <2>1
  <2>2. QED
    BY <1>1, <2>1
<1>6. QED
  BY <1>2, <1>3, <1>4, <1>5 DEF PredCell

LEMMA ScanInv ==
  ASSUME QueueInv, BurstScan
  PROVE  QueueInv'
<1> USE DEF BurstScan, QueueInv, prodVars, ConsumerLocs
<1>0. ndet = 0 /\ cpc # "idle" /\ Run(p)
  BY DEF TypeOK, OrderOK, ConsumerOK
<1>1. /\ p \in Entries /\ p = order[1]
      /\ order' \in Seq(Entries) /\ Len(order') = Len(order) - 1 /\ Len(order) > 0
      /\ \A i \in 1..Len(order') : order'[i] = order[i + 1] /\ order'[i] # p
      /\ ndet' = IF ndet > 0 THEN ndet - 1 ELSE 0
  BY <1>0, RunShifts
<1>2. Len(order) > 1 /\ link[p] = order[2] /\ link[p] # Null
  BY <1>0, <1>1 DEF TypeOK, OrderOK, TailOK, Reachable, PredCell
<1>3. TypeOK'
  BY <1>0, <1>1, <1>2, RunShifts DEF TypeOK
<1>4. OrderOK'
  BY <1>0, <1>1, <1>2, RunShifts DEF TypeOK, OrderOK
<1>6. TailOK'
  BY <1>0, <1>1, <1>2 DEF TypeOK, OrderOK, TailOK
<1>7. ConsumerOK'
  BY <1>0, <1>1, <1>2 DEF TypeOK, OrderOK, ConsumerOK
<1>8. Reachable'
  <2> SUFFICES ASSUME NEW i \in 1..Len(order'), ~(i = 1 /\ Held')
               PROVE  \/ link'[PredCell(i)'] = order'[i]
                      \/ /\ link'[PredCell(i)'] = Null
                         /\ \E t \in Producers : Pending(t, PredCell(i), order[i])'
    BY DEF Reachable
  <2>1. PICK j \in 1..Len(order) : j = i + 1
    BY <1>1 DEF TypeOK
  <2>2. \/ link[PredCell(j)] = order[j]
        \/ /\ link[PredCell(j)] = Null
           /\ \E t \in Producers : Pending(t, PredCell(j), order[j])
    BY <2>1 DEF Reachable
  <2>3. PredCell(i)' = PredCell(j) /\ order'[i] = order[j]
    BY <1>0, <2>1, PredShifts DEF Held
  <2>4. QED
    BY <2>2, <2>3 DEF Pending
<1>9. ProducersOK'
  <2>1. ASSUME NEW u \in Producers, ppc'[u] = "link"
        PROVE  \E i \in 1..Len(order') :
                 /\ item'[u] = order'[i] /\ got'[u] = PredCell(i)'
                 /\ link'[got'[u]] = Null /\ ~(i = 1 /\ Held)'
    <3>1. PICK i \in 1..Len(order) : /\ item[u] = order[i] /\ got[u] = PredCell(i)
                                     /\ link[got[u]] = Null /\ ~(i = 1 /\ Held)
      BY <2>1 DEF ProducersOK
    <3>2. i # 1 /\ (i = 2 => ndet = 1) /\ i \in Nat
      BY <3>1, <1>0, <1>1, <1>2 DEF Held, PredCell, TypeOK, ConsumerOK, OrderOK
    <3>3. PICK j \in 1..Len(order') : j = i - 1
      BY <3>2, <1>1 DEF TypeOK
    <3>4. PredCell(j)' = PredCell(i) /\ order'[j] = order[i]
      BY <1>0, <3>2, <3>3, PredShifts
    <3>5. ~(j = 1 /\ Held)'
      BY <3>2, <3>3, <1>0, <1>2 DEF Held
    <3>6. QED
      BY <3>1, <3>3, <3>4, <3>5
  <2>2. ASSUME NEW u \in Producers, ppc'[u] = "swap"
        PROVE  /\ item'[u] \in Entries \ free' /\ link'[item'[u]] = Null
               /\ \A i \in 1..Len(order') : order'[i] # item'[u]
    BY <2>2, <1>0, <1>1 DEF TypeOK, ProducersOK, Run
  <2>3. \A u, v \in Producers :
          ppc'[u] # "idle" /\ ppc'[v] # "idle" /\ item'[u] = item'[v] => u = v
    BY DEF TypeOK, ProducersOK
  <2>4. QED
    BY <2>1, <2>2, <2>3 DEF ProducersOK
<1>10. QED
  BY <1>3, <1>4, <1>6, <1>7, <1>8, <1>9

LEMMA DrainInv ==
  ASSUME QueueInv, BurstDrain
  PROVE  QueueInv'
<1> USE DEF BurstDrain, QueueInv, prodVars, ConsumerLocs
<1>0. ndet > 0 /\ cpc # "idle" /\ Run(p)
  BY DEF TypeOK, OrderOK, ConsumerOK
<1>1. /\ p \in Entries /\ p = order[1]
      /\ order' \in Seq(Entries) /\ Len(order') = Len(order) - 1 /\ Len(order) > 0
      /\ \A i \in 1..Len(order') : order'[i] = order[i + 1] /\ order'[i] # p
      /\ ndet' = IF ndet > 0 THEN ndet - 1 ELSE 0
  BY <1>0, RunShifts
<1>2. ndet > 1 /\ Len(order) > 1 /\ link[p] = order[2] /\ link[p] # Null
  <2>1. ndet > 1 /\ Len(order) > 1
    BY <1>0, <1>1 DEF TypeOK, OrderOK, ConsumerOK
  <2>2. PredCell(2) = p /\ 2 \in 1..Len(order) /\ ~(2 = 1 /\ Held)
    BY <1>0, <1>1, <2>1 DEF TypeOK, PredCell
  <2>3. link[p] = order[2]
    BY <2>2 DEF Reachable
  <2>4. QED
    BY <2>1, <2>3
<1>3. TypeOK'
  BY <1>0, <1>1, <1>2, RunShifts DEF TypeOK
<1>4. OrderOK'
  BY <1>0, <1>1, <1>2, RunShifts DEF TypeOK, OrderOK
<1>6. TailOK'
  BY <1>0, <1>1, <1>2 DEF TypeOK, OrderOK, TailOK
<1>7. ConsumerOK'
  BY <1>0, <1>1, <1>2 DEF TypeOK, OrderOK, ConsumerOK
<1>8. Reachable'
  <2> SUFFICES ASSUME NEW i \in 1..Len(order'), ~(i = 1 /\ Held')
               PROVE  \/ link'[PredCell(i)'] = order'[i]
                      \/ /\ link'[PredCell(i)'] = Null
                         /\ \E t \in Producers : Pending(t, PredCell(i), order[i])'
    BY DEF Reachable
  <2>1. PICK j \in 1..Len(order) : j = i + 1
    BY <1>1 DEF TypeOK
  <2>2. \/ link[PredCell(j)] = order[j]
        \/ /\ link[PredCell(j)] = Null
           /\ \E t \in Producers : Pending(t, PredCell(j), order[j])
    BY <2>1 DEF Reachable
  <2>3. PredCell(i)' = PredCell(j) /\ order'[i] = order[j]
    BY <1>0, <2>1, PredShifts DEF Held
  <2>4. QED
    BY <2>2, <2>3 DEF Pending
<1>9. ProducersOK'
  <2>1. ASSUME NEW u \in Producers, ppc'[u] = "link"
        PROVE  \E i \in 1..Len(order') :
                 /\ item'[u] = order'[i] /\ got'[u] = PredCell(i)'
                 /\ link'[got'[u]] = Null /\ ~(i = 1 /\ Held)'
    <3>1. PICK i \in 1..Len(order) : /\ item[u] = order[i] /\ got[u] = PredCell(i)
                                     /\ link[got[u]] = Null /\ ~(i = 1 /\ Held)
      BY <2>1 DEF ProducersOK
    <3>2. i # 1 /\ (i = 2 => ndet = 1) /\ i \in Nat
      BY <3>1, <1>0, <1>1, <1>2 DEF Held, PredCell, TypeOK, ConsumerOK, OrderOK
    <3>3. PICK j \in 1..Len(order') : j = i - 1
      BY <3>2, <1>1 DEF TypeOK
    <3>4. PredCell(j)' = PredCell(i) /\ order'[j] = order[i]
      BY <1>0, <3>2, <3>3, PredShifts
    <3>5. ~(j = 1 /\ Held)'
      BY <3>2, <3>3, <1>0, <1>2 DEF Held
    <3>6. QED
      BY <3>1, <3>3, <3>4, <3>5
  <2>2. ASSUME NEW u \in Producers, ppc'[u] = "swap"
        PROVE  /\ item'[u] \in Entries \ free' /\ link'[item'[u]] = Null
               /\ \A i \in 1..Len(order') : order'[i] # item'[u]
    BY <2>2, <1>0, <1>1 DEF TypeOK, ProducersOK, Run
  <2>3. \A u, v \in Producers :
          ppc'[u] # "idle" /\ ppc'[v] # "idle" /\ item'[u] = item'[v] => u = v
    BY DEF TypeOK, ProducersOK
  <2>4. QED
    BY <2>1, <2>2, <2>3 DEF ProducersOK
<1>10. QED
  BY <1>3, <1>4, <1>6, <1>7, <1>8, <1>9

LEMMA DrainLastInv ==
  ASSUME QueueInv, BurstDrainLast
  PROVE  QueueInv'
<1> USE DEF BurstDrainLast, QueueInv, prodVars, ConsumerLocs
<1>0. ndet = 1 /\ cpc # "idle" /\ Run(p)
  BY DEF TypeOK, OrderOK, ConsumerOK
<1>1. /\ p \in Entries /\ p = order[1]
      /\ order' \in Seq(Entries) /\ Len(order') = Len(order) - 1 /\ Len(order) > 0
      /\ \A i \in 1..Len(order') : order'[i] = order[i + 1] /\ order'[i] # p
      /\ ndet' = IF ndet > 0 THEN ndet - 1 ELSE 0
  BY <1>0, RunShifts
<1>2. link[p] = Null
  BY <1>0, <1>1 DEF TailOK
<1>3. TypeOK'
  BY <1>0, <1>1, <1>2, RunShifts DEF TypeOK
<1>4. OrderOK'
  BY <1>0, <1>1, <1>2, RunShifts DEF TypeOK, OrderOK
<1>6. TailOK'
  BY <1>0, <1>1, <1>2 DEF TypeOK, OrderOK, TailOK
<1>7. ConsumerOK'
  BY <1>0, <1>1, <1>2 DEF TypeOK, OrderOK, ConsumerOK
<1>8. Reachable'
  <2> SUFFICES ASSUME NEW i \in 1..Len(order'), ~(i = 1 /\ Held')
               PROVE  \/ link'[PredCell(i)'] = order'[i]
                      \/ /\ link'[PredCell(i)'] = Null
                         /\ \E t \in Producers : Pending(t, PredCell(i), order[i])'
    BY DEF Reachable
  <2>1. PICK j \in 1..Len(order) : j = i + 1
    BY <1>1 DEF TypeOK
  <2>2. \/ link[PredCell(j)] = order[j]
        \/ /\ link[PredCell(j)] = Null
           /\ \E t \in Producers : Pending(t, PredCell(j), order[j])
    BY <2>1 DEF Reachable
  <2>3. PredCell(i)' = PredCell(j) /\ order'[i] = order[j]
    BY <1>0, <2>1, PredShifts DEF Held
  <2>4. QED
    BY <2>2, <2>3 DEF Pending
<1>9. ProducersOK'
  <2>1. ASSUME NEW u \in Producers, ppc'[u] = "link"
        PROVE  \E i \in 1..Len(order') :
                 /\ item'[u] = order'[i] /\ got'[u] = PredCell(i)'
                 /\ link'[got'[u]] = Null /\ ~(i = 1 /\ Held)'
    <3>1. PICK i \in 1..Len(order) : /\ item[u] = order[i] /\ got[u] = PredCell(i)
                                     /\ link[got[u]] = Null /\ ~(i = 1 /\ Held)
      BY <2>1 DEF ProducersOK
    <3>2. i # 1 /\ (i = 2 => ndet = 1) /\ i \in Nat
      BY <3>1, <1>0, <1>1, <1>2 DEF Held, PredCell, TypeOK, ConsumerOK, OrderOK
    <3>3. PICK j \in 1..Len(order') : j = i - 1
      BY <3>2, <1>1 DEF TypeOK
    <3>4. PredCell(j)' = PredCell(i) /\ order'[j] = order[i]
      BY <1>0, <3>2, <3>3, PredShifts
    <3>5. ~(j = 1 /\ Held)'
      BY <3>2, <3>3, <1>0, <1>2 DEF Held
    <3>6. QED
      BY <3>1, <3>3, <3>4, <3>5
  <2>2. ASSUME NEW u \in Producers, ppc'[u] = "swap"
        PROVE  /\ item'[u] \in Entries \ free' /\ link'[item'[u]] = Null
               /\ \A i \in 1..Len(order') : order'[i] # item'[u]
    BY <2>2, <1>0, <1>1 DEF TypeOK, ProducersOK, Run
  <2>3. \A u, v \in Producers :
          ppc'[u] # "idle" /\ ppc'[v] # "idle" /\ item'[u] = item'[v] => u = v
    BY DEF TypeOK, ProducersOK
  <2>4. QED
    BY <2>1, <2>2, <2>3 DEF ProducersOK
<1>10. QED
  BY <1>3, <1>4, <1>6, <1>7, <1>8, <1>9

-----------------------------------------------------------------------------
(* dequeue                                                                 *)

(* Returning the oldest entry after head_ was set to the second one.       *)
LEMMA DequeueReturnInv ==
  ASSUME QueueInv, DequeueReturn, UNCHANGED <<tail, prodVars>>,
         link' = [link EXCEPT ![HeadCell] = nxt],
         cpc \in {"deqstore", "deqfix"}, nxt # Null
  PROVE  QueueInv'
<1> USE DEF DequeueReturn, QueueInv, prodVars, ConsumerLocs
<1>0. ndet = 0 /\ cpc # "idle" /\ Run(p)
  BY DEF TypeOK, OrderOK
<1>1. /\ p \in Entries /\ p = order[1]
      /\ order' \in Seq(Entries) /\ Len(order') = Len(order) - 1 /\ Len(order) > 0
      /\ \A i \in 1..Len(order') : order'[i] = order[i + 1] /\ order'[i] # p
      /\ ndet' = 0
  BY <1>0, RunShifts
<1>2. /\ Len(order) > 1 /\ nxt = order[2] /\ link[p] = nxt
      /\ link[HeadCell] = p \/ Held
  BY DEF ConsumerOK, Held
<1>3. TypeOK'
  BY <1>0, <1>1, <1>2, RunShifts DEF TypeOK
<1>4. OrderOK'
  BY <1>0, <1>1, <1>2, RunShifts DEF TypeOK, OrderOK
<1>5. TailOK'
  BY <1>0, <1>1, <1>2 DEF TypeOK, OrderOK, TailOK
<1>6. ConsumerOK'
  BY <1>0, <1>1, <1>2 DEF TypeOK, OrderOK, ConsumerOK
<1>7. \A i \in 2..Len(order) : PredCell(i) # HeadCell
  BY <1>0 DEF PredCell, TypeOK
<1>8. Reachable'
  <2> SUFFICES ASSUME NEW i \in 1..Len(order')
               PROVE  \/ link'[PredCell(i)'] = order'[i]
                      \/ /\ link'[PredCell(i)'] = Null
                         /\ \E t \in Producers : Pending(t, PredCell(i), order[i])'
    BY DEF Reachable
  <2>1. PICK j \in 2..Len(order) : j = i + 1
    BY <1>1 DEF TypeOK
  <2>2. \/ link[PredCell(j)] = order[j]
        \/ /\ link[PredCell(j)] = Null
           /\ \E t \in Producers : Pending(t, PredCell(j), order[j])
    BY <2>1 DEF Reachable
  <2>3. CASE i = 1
    BY <1>1, <1>2, <2>3 DEF PredCell, TypeOK
  <2>4. CASE i # 1
    <3>1. PredCell(i)' = PredCell(j) /\ order'[i] = order[j]
      BY <1>0, <2>1, <2>4, PredShifts
    <3>2. link'[PredCell(j)] = link[PredCell(j)]
      BY <1>7, <2>1, <1>0 DEF TypeOK, PredCell
    <3>3. QED
      BY <2>2, <3>1, <3>2 DEF Pending
  <2>5. QED
    BY <2>3, <2>4
<1>9. ProducersOK'
  <2>1. ASSUME NEW u \in Producers, ppc'[u] = "link"
        PROVE  \E i \in 1..Len(order') :
                 /\ item'[u] = order'[i] /\ got'[u] = PredCell(i)'
                 /\ link'[got'[u]] = Null /\ ~(i = 1 /\ Held)'
    <3>1. PICK i \in 1..Len(order) : /\ item[u] = order[i] /\ got[u] = PredCell(i)
                                     /\ link[got[u]] = Null /\ ~(i = 1 /\ Held)
      BY <2>1 DEF ProducersOK
    <3>2. i # 1 /\ i # 2 /\ i \in 2..Len(order)
      BY <3>1, <1>0, <1>1, <1>2 DEF PredCell, TypeOK
    <3>3. PICK j \in 1..Len(order') : j = i - 1
      BY <3>2, <1>1 DEF TypeOK
    <3>4. PredCell(j)' = PredCell(i) /\ order'[j] = order[i]
      BY <1>0, <3>2, <3>3, PredShifts
    <3>5. link'[PredCell(i)] = link[PredCell(i)] /\ ~Held'
      BY <1>7, <3>2, <1>0 DEF TypeOK, PredCell, Held
    <3>6. QED
      BY <3>1, <3>3, <3>4, <3>5
  <2>2. ASSUME NEW u \in Producers, ppc'[u] = "swap"
        PROVE  /\ item'[u] \in Entries \ free' /\ link'[item'[u]] = Null
               /\ \A i \in 1..Len(order') : order'[i] # item'[u]
    BY <2>2, <1>0, <1>1 DEF TypeOK, ProducersOK, Run
  <2>3. \A u, v \in Producers :
          ppc'[u] # "idle" /\ ppc'[v] # "idle" /\ item'[u] = item'[v] => u = v
    BY DEF TypeOK, ProducersOK
  <2>4. QED
    BY <2>1, <2>2, <2>3 DEF ProducersOK
<1>10. QED
  BY <1>3, <1>4, <1>5, <1>6, <1>8, <1>9

LEMMA DequeueStoreInv ==
  ASSUME QueueInv, DequeueStore
  PROVE  QueueInv'
<1>1. CASE nxt # Null
  BY <1>1, DequeueReturnInv DEF DequeueStore, prodVars
<1>2. CASE nxt = Null
  <2> USE <1>2 DEF DequeueStore, RunNothing, QueueInv, prodVars, ConsumerLocs
  <2>1. TypeOK' /\ OrderOK' /\ TailOK' /\ ConsumerOK'
    BY DEF TypeOK, OrderOK, TailOK, ConsumerOK
  <2>2. Reachable'
    BY DEF TypeOK, OrderOK, Reachable, PredCell, Held, Pending
  <2>3. ProducersOK'
    BY DEF TypeOK, OrderOK, ProducersOK, PredCell, Held, ConsumerOK
  <2>4. QED
    BY <2>1, <2>2, <2>3
<1>3. QED
  BY <1>1, <1>2

LEMMA DequeueCasInv ==
  ASSUME QueueInv, DequeueCas
  PROVE  QueueInv'
<1> USE DEF DequeueCas, QueueInv, prodVars, ConsumerLocs
<1>1. CASE tail # p
  <2> USE <1>1 DEF RunNothing
  <2>1. TypeOK' /\ OrderOK' /\ TailOK' /\ ConsumerOK'
    BY DEF TypeOK, OrderOK, TailOK, ConsumerOK
  <2>2. Reachable' /\ ProducersOK'
    BY DEF TypeOK, OrderOK, Reachable, ProducersOK, PredCell, Held, Pending
  <2>3. QED
    BY <2>1, <2>2
<1>2. CASE tail = p
  <2> USE <1>2 DEF DequeueReturn
  <2>0. cpc # "idle" /\ ndet = 0 /\ Run(p) /\ link[HeadCell] = Null
    BY DEF TypeOK, OrderOK, ConsumerOK
  <2>1. Len(order) = 1
    <3>1. Len(order) \in Nat /\ Len(order) > 0 /\ p = order[1]
      BY <2>0, RunShifts DEF TypeOK
    <3>2. order[Len(order)] = order[1]
      BY <2>0, <3>1 DEF TailOK
    <3>3. QED
      BY <3>1, <3>2 DEF OrderOK
  <2>2. Len(order') = 0 /\ order' = <<>> /\ ndet' = 0
    BY <2>0, <2>1, RunShifts
  <2>3. TypeOK' /\ OrderOK'
    BY <2>0, <2>2, RunShifts DEF TypeOK, OrderOK
  <2>4. TailOK' /\ ConsumerOK' /\ Reachable'
    BY <2>0, <2>2, <2>3 DEF TailOK, ConsumerOK, Reachable, OrderOK, TypeOK
  <2>5. ProducersOK'
    <3>1. \A u \in Producers : ppc[u] # "link"
      BY <2>1 DEF ProducersOK, Held
    <3>2. QED
      BY <3>1, <2>0, <2>2, RunShifts DEF ProducersOK, TypeOK, Run
  <2>6. QED
    BY <2>3, <2>4, <2>5
<1>3. QED
  BY <1>1, <1>2

LEMMA DequeueFixInv ==
  ASSUME QueueInv, DequeueFix
  PROVE  QueueInv'
<1>1. nxt # Null
  BY DEF DequeueFix, QueueInv, ConsumerOK, TypeOK
<1>2. QED
  BY <1>1, DequeueReturnInv DEF DequeueFix, prodVars

-----------------------------------------------------------------------------

LEMMA NextInv == QueueInv /\ [Next]_vars => QueueInv'
<1> SUFFICES ASSUME QueueInv, [Next]_vars  PROVE QueueInv'
  OBVIOUS
<1>1. CASE \E t \in Producers : Producer(t)
  BY <1>1, BeginInv, ExchangeInv, LinkInv DEF Producer
<1>2. CASE Burst
  BY <1>2, QuietInv, TakeInv, ScanInv, DrainInv, DrainLastInv DEF Burst
<1>3. CASE Dequeue
  BY <1>3, QuietInv, DequeueStoreInv, DequeueCasInv, DequeueFixInv DEF Dequeue
<1>4. CASE UNCHANGED vars
  BY <1>4 DEF vars, prodVars, consVars, QueueInv, TypeOK, OrderOK, TailOK,
              Reachable, ProducersOK, ConsumerOK, PredCell, Held, Pending
<1>5. QED
  BY <1>1, <1>2, <1>3, <1>4 DEF Next

(* The list structure of the mpsc queue (enqueue, burst and dequeue of     *)
(* intru_queue.hpp) is an invariant for any number of producers, entries   *)
(* and any budgets.                                                        *)
THEOREM QueueInvariant == Spec => []QueueInv
<1>1. QED
  BY InitInv, NextInv, PTL DEF Spec

(* No producer and no consumer of the mpsc queue ever reads or writes an   *)
(* entry that has run and been deleted.                                    *)
THEOREM MemorySafety == Spec => []NoUseAfterFree
<1>1. QueueInv => NoUseAfterFree
  <2> SUFFICES ASSUME QueueInv PROVE NoUseAfterFree
    OBVIOUS
  <2>1. ASSUME NEW t \in Producers, ppc[t] = "link"  PROVE got[t] \notin free
    <3>1. PICK i \in 1..Len(order) : got[t] = PredCell(i) /\ ~(i = 1 /\ Held)
      BY <2>1 DEF QueueInv, ProducersOK
    <3>2. CASE PredCell(i) = HeadCell
      BY <3>1, <3>2 DEF QueueInv, TypeOK
    <3>3. CASE PredCell(i) # HeadCell
      BY <3>1, <3>3 DEF QueueInv, TypeOK, OrderOK, PredCell, Held
    <3>4. QED
      BY <3>2, <3>3
  <2>2. cpc # "idle" => p \notin free
    BY DEF QueueInv, ConsumerOK, OrderOK, TypeOK
  <2>3. cpc = "drain" => last \notin free
    BY DEF QueueInv, ConsumerOK, OrderOK, TypeOK
  <2>4. QED
    BY <2>1, <2>2, <2>3 DEF NoUseAfterFree
<1>2. QED
  BY <1>1, QueueInvariant, PTL

(* The mpsc queue implements the abstract FIFO: every entry runs exactly   *)
(* once, in the order of the tail exchanges.                               *)
THEOREM Refinement == Spec => ImplementsFifo
<1>1. Init => Fifo!Init
  BY DEF Init, Fifo!Init
<1>2. QueueInv /\ [Next]_vars => [Fifo!Next]_(Fifo!vars)
  <2> SUFFICES ASSUME QueueInv, [Next]_vars  PROVE [Fifo!Next]_(Fifo!vars)
    OBVIOUS
  <2> USE DEF QueueInv, Fifo!vars
  <2>1. ASSUME Run(p), cpc # "idle"  PROVE Fifo!Next
    BY <2>1 DEF Run, TypeOK, ConsumerOK, Fifo!Next, Fifo!Run
  <2>2. ASSUME RunNothing  PROVE UNCHANGED Fifo!vars
    BY <2>2 DEF RunNothing
  <2>3. CASE \E t \in Producers : Producer(t)
    <3> PICK t \in Producers : Producer(t)
      BY <2>3
    <3>1. CASE EnqueueExchange(t)
      <4>1. item[t] \in Entries /\ ~Fifo!InQueue(item[t])
        BY <3>1 DEF EnqueueExchange, ProducersOK, TypeOK, Fifo!InQueue
      <4>2. QED
        BY <3>1, <4>1 DEF EnqueueExchange, Fifo!Next, Fifo!Enqueue
    <3>2. CASE \E x \in Entries : EnqueueBegin(t, x)
      BY <3>2 DEF EnqueueBegin
    <3>3. CASE EnqueueLink(t)
      BY <3>3 DEF EnqueueLink
    <3>4. QED
      BY <3>1, <3>2, <3>3 DEF Producer
  <2>4. CASE Burst
    BY <2>4, <2>1, <2>2 DEF Burst, BurstBegin, BurstScan, BurstScanEnd, BurstPublish,
                            BurstReset, BurstTake, BurstDrain, BurstDrainLast
  <2>5. CASE Dequeue
    BY <2>5, <2>1, <2>2 DEF Dequeue, DequeueBegin, DequeueLoad, DequeueStore,
                            DequeueCas, DequeueSpin, DequeueFix, DequeueReturn
  <2>6. CASE UNCHANGED vars
    BY <2>6 DEF vars
  <2>7. QED
    BY <2>3, <2>4, <2>5, <2>6 DEF Next
<1>3. QED
  BY <1>1, <1>2, QueueInvariant, PTL DEF Spec, ImplementsFifo, Fifo!Spec
=============================================================================
