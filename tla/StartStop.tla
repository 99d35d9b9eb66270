------------------------------- MODULE StartStop -------------------------------
(***************************************************************************)
(* upcxx::init and finalize, destroy_heap and restore_heap, around the     *)
(* messages of AmSend.  A job is                                           *)
(*   nbhd      the GASNet neighbourhood of each rank,                      *)
(*   npam      "always" or "local", upc: linked with UPC and its heap,     *)
(*   env       the two thresholds asked for in the environment, 0 if not,  *)
(*   prog      what each rank does, one operation after the other:         *)
(*             <<"init">>, <<"send", m>>, <<"settle", i>> (wait until the  *)
(*             messages of every rank up to operation i have run),         *)
(*             <<"destroy_heap">>, <<"restore_heap">>, <<"finalize">>.     *)
(***************************************************************************)
EXTENDS AmSend

CONSTANTS
  LocalDefault,   \* UPCXXI_RPC_EAGER_THRESHOLD_LOCAL_DEFAULT
  JobHeapSize,    \* bytes of each heap
  ScratchSize,    \* scratch of the local team, from GASNet
  FinalizeRounds  \* rounds quiesce_rdzv takes in finalize before it gives up

ASSUME StartStopAssumption ==
  /\ CutoverMin \in Nat /\ MediumMax \in Nat /\ CutoverMin <= MediumMax
  /\ LocalDefault \in Nat /\ FinalizeRounds \in Nat

OpOf(r) == job.prog[r][proc[r].pc]
Step(r, op) == proc[r].phase = "run" /\ OpOf(r)[1] = op
MessageIds == {<<r, i>> \in (DOMAIN job.prog) \X (1..10) : i <= Len(job.prog[r]) /\ job.prog[r][i][1] = "send"}

NoProcess ==
  [phase |-> "off", pc |-> 1, count |-> 0, lb |-> 0, ub |-> 0, position |-> <<0, 0>>, cut |-> 0, cut_local |-> 0,
   heap |-> [NewHeap(FALSE, 4096, 0) EXCEPT !.isinit = FALSE], scratch |-> 0,
   q |-> [p \in Personas |-> [l \in Levels |-> <<>>]], gets |-> {}, mem |-> {}, sds |-> {}, held |-> {},
   coll |-> 0, val |-> 0, prev |-> 0, iters |-> 0, why |-> "init", swept |-> FALSE, due |-> {},
   gaveUp |-> FALSE, fault |-> FALSE]
JobStart(jobs) ==
           /\ job \in jobs
           /\ proc = [r \in DOMAIN job.prog |-> NoProcess]
           /\ net = {} /\ ran = [id \in MessageIds |-> 0]

\* GASNet's collectives over the world: they match in order, and no rank is more than one
\* ahead, so that counting to four and keeping two contributions is enough.
Entered(p, v) == [p EXCEPT !.coll = (@ + 1) % 4, !.prev = p.val, !.val = v]
CollDone(r) == \A s \in Ranks : (proc[s].coll - proc[r].coll + 4) % 4 \in {0, 1}
Contribution(r, s) == IF proc[s].coll = proc[r].coll THEN proc[s].val ELSE proc[s].prev

\* Faulty variant: each rank looks at its own count only.
ReduceOwn(r) == proc[r].val

ReduceMax(r) == Max({Contribution(r, s) : s \in Ranks})

-----------------------------------------------------------------------------
\* ENV_THRESH
Thresh(asked, default) ==
  LET v == IF asked = 0 THEN default ELSE asked
      raised == IF v < CutoverMin THEN CutoverMin ELSE v
  IN  IF raised > MediumMax THEN MediumMax ELSE raised
cutover == Thresh(job.env[1], MediumMax)
cutover_local == Thresh(job.env[2], IF LocalDefault < cutover THEN LocalDefault ELSE cutover)

\* The local team: the neighbourhood when its ranks are contiguous, else this rank alone.
WorldSize == Cardinality(Ranks)
contiguous_nbhd(S) == Max(S) - Min(S) + 1 = Cardinality(S)
local_is_world(r) == Cardinality(job.nbhd[r]) = WorldSize
pshm_peer_lb(r) == IF contiguous_nbhd(job.nbhd[r]) THEN Min(job.nbhd[r]) ELSE r
pshm_peer_ub(r) == IF contiguous_nbhd(job.nbhd[r]) THEN Min(job.nbhd[r]) + Cardinality(job.nbhd[r]) ELSE r + 1
\* The walk over the gathered bases that numbers the local teams.
Position(r) ==
  LET lbs == [i \in 0..WorldSize - 1 |-> pshm_peer_lb(i)]
      pos[i \in 0..WorldSize - 1] == IF i = 0 THEN 0 ELSE pos[i - 1] + IF lbs[i] # lbs[i - 1] THEN 1 ELSE 0
  IN  <<pos[r], pos[WorldSize - 1] + 1>>

\* The scratch of a local team that is not the world lies in the heap, unless UPC has it.
InitHeap(r) ==
  LET h == NewHeap(job.upc, 4096, JobHeapSize) IN
  IF local_is_world(r) \/ job.upc THEN [p |-> 0, h |-> h] ELSE allocate_or_null(h, ScratchSize, 64, "misc")

\* Re-entry only counts.
InitAgain(r) == /\ Step(r, "init") /\ proc[r].count > 0
                /\ proc' = [proc EXCEPT ![r].count = @ + 1, ![r].pc = @ + 1] /\ UNCHANGED <<job, net, ran>>
InitEnter(r) ==
  LET got == InitHeap(r) IN
  /\ proc[r].phase = "off" /\ proc[r].count = 0
  /\ proc' = [proc EXCEPT ![r] = Entered([@ EXCEPT
       !.phase = "wait", !.why = "init", !.count = 1, !.lb = pshm_peer_lb(r), !.ub = pshm_peer_ub(r),
       !.position = Position(r), !.cut = cutover, !.cut_local = cutover_local,
       !.heap = got.h, !.scratch = got.p], 0)]
  /\ UNCHANGED <<job, net, ran>>
\* The heap of UPC cannot be destroyed, only marked so.
HeapDestroyed(h) == [h EXCEPT !.isinit = FALSE, !.blocks = IF h.upc THEN @ ELSE {}]
\* The exit barriers of init, restore_heap and, before the heap goes, destroy_heap.
WaitDone(r) ==
  /\ proc[r].phase = "wait" /\ CollDone(r)
  /\ proc' = [proc EXCEPT ![r].phase = "run", ![r].pc = @ + 1,
                          ![r].heap = IF proc[r].why = "destroy" THEN HeapDestroyed(@) ELSE @]
  /\ UNCHANGED <<job, net, ran>>

-----------------------------------------------------------------------------
SendOp(r) ==
  /\ Step(r, "send") /\ UNCHANGED job
  /\ LET m == OpOf(r)[2]
         id == <<r, proc[r].pc>>
     IN  \/ \E b1, b2 \in BOOLEAN : SendAm(r, m, id, b1, b2)
         \/ PrepareDeferred(r, m, id)
FlushOp(r) == proc[r].phase = "run" /\ (\E am \in proc[r].held : SendDeferred(r, am)) /\ UNCHANGED job
Settled(i) == \A id \in DOMAIN ran : id[2] <= i => ran[id] # 0
Settle(r) == /\ Step(r, "settle") /\ Settled(OpOf(r)[2]) /\ proc' = [proc EXCEPT ![r].pc = @ + 1] /\ UNCHANGED <<job, net, ran>>

QueuedFor(p) == UNION {{p.q[per]["user"][i].msg.id : i \in DOMAIN p.q[per]["user"]} : per \in Personas}
RdzvCount(p) == p.heap.foot["rdzv"].count

FinalizeNested(r) == /\ Step(r, "finalize") /\ proc[r].count > 1
                     /\ proc' = [proc EXCEPT ![r].count = @ - 1, ![r].pc = @ + 1] /\ UNCHANGED <<job, net, ran>>
\* The barrier of finalize runs user progress at least once; that of destroy_heap need not.
BarrierEnter(r) ==
  /\ \/ Step(r, "finalize") /\ proc[r].count = 1 /\ proc[r].held = {}
     \/ Step(r, "destroy_heap") /\ proc[r].heap.isinit
  /\ proc' = [proc EXCEPT ![r] = Entered([@ EXCEPT !.phase = "barrier", !.why = OpOf(r)[1], !.swept = FALSE,
                                                   !.due = QueuedFor(proc[r])], 0)]
  /\ UNCHANGED <<job, net, ran>>
Sweep(r) ==
  /\ proc[r].phase = "barrier" /\ ~proc[r].swept /\ QueuedFor(proc[r]) = {}
  /\ proc' = [proc EXCEPT ![r].swept = TRUE] /\ UNCHANGED <<job, net, ran>>
Harvested(p) == p.why = "finalize" => p.swept

\* quiesce_rdzv: read the count, reduce its maximum over the job, until it is zero; in
\* finalize only so often.
QuiesceBegin(r) ==
  /\ proc[r].phase = "barrier" /\ Harvested(proc[r]) /\ CollDone(r)
  /\ proc' = [proc EXCEPT ![r] = Entered([@ EXCEPT !.phase = "reduce", !.iters = 0], RdzvCount(proc[r]))]
  /\ UNCHANGED <<job, net, ran>>

\* Faulty variant: the wait for rendezvous buffers has no limit.
RoundsForever(p) == TRUE

RoundsLeft(p) == p.why = "finalize" => p.iters + 1 < FinalizeRounds
QuiesceAgain(r) ==
  /\ proc[r].phase = "reduce" /\ CollDone(r) /\ ReduceMax(r) # 0 /\ RoundsLeft(proc[r])
  /\ proc' = [proc EXCEPT ![r] = Entered([@ EXCEPT !.iters = IF @ + 1 < FinalizeRounds THEN @ + 1 ELSE @],
                                         RdzvCount(proc[r]))]
  /\ UNCHANGED <<job, net, ran>>
QuiesceEnd(r) ==
  /\ proc[r].phase = "reduce" /\ CollDone(r) /\ (ReduceMax(r) = 0 \/ ~RoundsLeft(proc[r]))
  /\ proc' = [proc EXCEPT ![r] = IF proc[r].why = "finalize"
                THEN [@ EXCEPT !.phase = "exit", !.gaveUp = ReduceMax(r) # 0]
                ELSE Entered([@ EXCEPT !.phase = "wait", !.why = "destroy"], 0)]
  /\ UNCHANGED <<job, net, ran>>

\* The rest of finalize: the local team and its scratch go, then the library is off.
Teardown(r) ==
  /\ proc[r].phase = "exit"
  /\ proc' = [proc EXCEPT ![r].phase = "done", ![r].count = 0, ![r].scratch = 0,
                          ![r].heap = deallocate(@, proc[r].scratch, "misc")]
  /\ UNCHANGED <<job, net, ran>>
RestoreHeap(r) ==
  /\ Step(r, "restore_heap") /\ ~proc[r].heap.isinit
  /\ proc' = [proc EXCEPT ![r] = Entered([@ EXCEPT !.phase = "wait", !.why = "restore",
       !.heap = IF @.upc THEN [@ EXCEPT !.isinit = TRUE] ELSE NewHeap(FALSE, 4096, JobHeapSize)], 0)]
  /\ UNCHANGED <<job, net, ran>>

Progress(r) == \/ Poll(r)
               \/ \E per \in Personas, level \in Levels : RunNext(r, per, level)
               \/ \E g \in proc[r].gets : GetDone(r, g)
Operation(r) ==
  \/ InitAgain(r) \/ InitEnter(r) \/ WaitDone(r) \/ SendOp(r) \/ FlushOp(r) \/ Settle(r)
  \/ FinalizeNested(r) \/ BarrierEnter(r) \/ Sweep(r) \/ QuiesceBegin(r) \/ QuiesceAgain(r) \/ QuiesceEnd(r)
  \/ Teardown(r) \/ RestoreHeap(r)
AllDone == \A r \in Ranks : proc[r].phase = "done"
JobNext == (\E r \in Ranks : Progress(r) \/ Operation(r)) \/ (AllDone /\ UNCHANGED amVars)

-----------------------------------------------------------------------------
\* Local teams are numbered without gaps, one number for each, as all their members see it.
LayoutExact ==
  LET up == {r \in Ranks : proc[r].phase \notin {"off", "wait", "done"}} IN
  /\ \A r, s \in up : (proc[r].position = proc[s].position) <=> rank_is_local(r, s)
  /\ up = Ranks /\ up # {} => {proc[r].position[1] : r \in Ranks} = 0..proc[0].position[2] - 1
\* Once a rank has left finalize, and no rank had to give up, no rendezvous payload is left in the
\* heap of any rank; the rank ran what its queue held when it called finalize, and its
\* scratch is back.  When the heaps are destroyed no payload is in them either.
TeardownClean ==
  /\ \A r \in Ranks : proc[r].phase = "done" =>
       /\ \A id \in proc[r].due : ran[id] = 1
       /\ proc[r].heap.foot["misc"].count = 0
       /\ (\A s \in Ranks : ~proc[s].gaveUp) => \A s \in Ranks : RdzvCount(proc[s]) = 0
  /\ \A r \in Ranks : ~proc[r].heap.isinit /\ proc[r].phase = "run" => \A s \in Ranks : RdzvCount(proc[s]) = 0
\* Start-up numbers the local teams rightly and nothing is torn down under a message.
LifeCycleExact == LayoutExact /\ TeardownClean
\* Every rank gets through its program and out of finalize.
JobsEnd == <>AllDone
===============================================================================
