-------------------------------- MODULE AmSend --------------------------------
(***************************************************************************)
(* Injection of active messages: where prepare_am puts the payload (the    *)
(* four am_send_buffer classes), the eager and the rendezvous protocol,    *)
(* the handlers at the target, and who frees what.                         *)
(*                                                                         *)
(* A message m is what send_am_master and its kin are given:               *)
(*   to, level, per   target rank, progress level, persona;                *)
(*   bound            NoBound, DynamicBound, or a static size;             *)
(*   ub, size         the bound found at run time, the size written;       *)
(*   how              "master", "persona" or "deferred";                   *)
(*   immediate        may fail with network_busy.                          *)
(***************************************************************************)
EXTENDS SharedHeap, Sequences, SequencesExt

CONSTANTS
  CutoverMin,  \* am_size_rdzv_cutover_min
  MediumMax,   \* largest payload of a GASNet medium message
  TinySize,    \* bytes an am_send_buffer has of its own
  FooterSize,  \* bytes of them the unbounded writer keeps for itself
  Jobs         \* the jobs of the run; see StartStop

VARIABLES
  job,   \* the job of this behaviour
  proc,  \* the processes
  net,   \* messages in flight, delivered in any order
  ran    \* how often each message ran, and Threw for one that was refused

amVars == <<job, proc, net, ran>>
Ranks == DOMAIN proc
Personas == {"master", "aux"}
Levels == {"internal", "user"}
NoBound == 0
DynamicBound == -1
Threw == -1

\* backend::rank_is_local
rank_is_local(r, s) == proc[r].lb <= s /\ s < proc[r].ub
\* UPCXXI_USE_NPAM: on any target, or on local ones only, by conduit.
UseNpam(r, to) == job.npam = "always" \/ rank_is_local(r, to)
UseNpamStatic  == job.npam = "always"
Cutover(r, to) == IF rank_is_local(r, to) THEN proc[r].cut_local ELSE proc[r].cut

IsStatic(m) == m.bound > 0
definitely_not_rdzv(m) == IsStatic(m) /\ m.bound <= CutoverMin
FitsEager(size, cutover) == size <= CutoverMin \/ size <= cutover

\* Where the payload goes: in the buffer object, in a GASNet buffer (npam), on the private
\* heap or on the shared heap.  One definition per class of am_send_buffer.
UnboundedPlace(m, cutover, npam) ==
  CASE ~FitsEager(m.size, cutover) -> "sheap"
    [] FitsEager(m.size, cutover) /\ m.size <= TinySize - FooterSize -> "tiny"
    [] FitsEager(m.size, cutover) /\ m.size > TinySize - FooterSize -> IF npam THEN "npam" ELSE "malloc"
BoundedPlace(m, cutover, npam) ==
  CASE ~FitsEager(m.ub, cutover) -> "sheap"
    [] FitsEager(m.ub, cutover) /\ npam -> "npam"
    [] FitsEager(m.ub, cutover) /\ ~npam -> IF m.ub <= TinySize THEN "tiny" ELSE "malloc"
StaticEagerPlace(npam) == IF npam THEN "npam" ELSE "tiny"
StaticNpamPlace(m, cutover) == IF definitely_not_rdzv(m) \/ m.ub <= cutover THEN "npam" ELSE "sheap"

\* Deferred messages do without the negotiated payload.
PlaceFor(r, m) ==
  LET npam == m.how # "deferred" /\ UseNpam(r, m.to)
      cut  == Cutover(r, m.to)
  IN  CASE m.bound = NoBound -> UnboundedPlace(m, cut, npam)
        [] m.bound # NoBound /\ m.how # "deferred" /\ UseNpamStatic -> StaticNpamPlace(m, cut)
        [] m.bound # NoBound /\ (m.how = "deferred" \/ ~UseNpamStatic) ->
             IF definitely_not_rdzv(m) THEN StaticEagerPlace(npam) ELSE BoundedPlace(m, cut, npam)
\* The bytes asked for: the bound where there is one.
AskedFor(m) == IF m.bound = NoBound THEN m.size ELSE m.ub

-----------------------------------------------------------------------------
\* Changes of one process, composed by the actions below.
Malloc(p, block) == [p EXCEPT !.mem = @ \cup {block}]
Free(p, block)   == [p EXCEPT !.mem = @ \ {block}, !.fault = @ \/ block \notin p.mem]
EnqueueOn(p, per, level, e) == [p EXCEPT !.q[per][level] = Append(@, e)]

\* The places that may refuse: a buffer of GASNet when the network is busy, the shared
\* heap when it is full.
Refused(p, am) == [p |-> p, am |-> [am EXCEPT !.where = "threw"]]
prepare_npam_medium(p, am, busy) ==
  IF busy THEN Refused(p, am) ELSE [p |-> [p EXCEPT !.sds = @ \cup {am.id}], am |-> am]
SharedPayload(p, am) ==
  LET got == allocate_or_null(p.heap, AskedFor(am.m), 16, "rdzv")
  IN  IF got.p = 0 THEN Refused(p, am) ELSE [p |-> [p EXCEPT !.heap = got.h], am |-> [am EXCEPT !.addr = got.p]]
\* prepare_am: the process with the payload in place, and the am_send_buffer.
prepare_am(r, m, id, busy) ==
  LET where == PlaceFor(r, m)
      am    == [where |-> where, eager |-> where # "sheap", id |-> id, addr |-> 0, m |-> m, sd |-> where = "npam"]
  IN  CASE where = "npam"   -> prepare_npam_medium(proc[r], am, busy)
        [] where = "tiny"   -> [p |-> proc[r], am |-> am]
        [] where = "malloc" -> [p |-> Malloc(proc[r], <<"send", id>>), am |-> am]
        [] where = "sheap"  -> SharedPayload(proc[r], am)

\* Faulty variant: the moved-from buffer still destructs.
MovedStillOwner(am) == [from |-> am, to |-> am]

\* The move constructor leaves nothing to destruct behind; here, what the new buffer holds.
Moved(am) == [from |-> [am EXCEPT !.eager = FALSE], to |-> am]
\* ~am_send_buffer
Destruct(p, am) == IF am.eager /\ am.where = "malloc" /\ ~am.sd THEN Free(p, <<"send", am.id>>) ELSE p

EagerMessage(r, am) == [kind |-> "eager", from |-> r, to |-> am.m.to, id |-> am.id, m |-> am.m]
RdzvMessage(r, am)  == [kind |-> "rdzv", from |-> r, to |-> am.m.to, id |-> am.id, m |-> am.m, addr |-> am.addr]
FreeMessage(r, to, id, addr) == [kind |-> "free", from |-> r, to |-> to, id |-> id, addr |-> addr]

\* send_am_eager_master and send_am_eager_persona: a source descriptor is committed, or
\* cancelled when the network is busy; then the buffer is destructed, thrown or not.
send_am_eager(r, p, am, busy) ==
  LET q == IF am.sd THEN [p EXCEPT !.sds = @ \ {am.id}, !.fault = @ \/ am.id \notin p.sds] ELSE p IN
  /\ proc' = [proc EXCEPT ![r] = Destruct(q, am)]
  /\ net' = IF busy THEN net ELSE net \cup {EagerMessage(r, am)}
  /\ ran' = IF busy THEN [ran EXCEPT ![am.id] = Threw] ELSE ran
\* send_am_rdzv: an internal message tells the target where the payload lies.
send_am_rdzv(r, p, am) ==
  /\ proc' = [proc EXCEPT ![r] = Destruct(p, am)] /\ net' = net \cup {RdzvMessage(r, am)} /\ UNCHANGED ran
SendPrepared(r, p, am, busy) == IF am.eager THEN send_am_eager(r, p, am, busy) ELSE send_am_rdzv(r, p, am)

\* send_am_master, send_am_persona: prepare and send in one call of the user.  Only an
\* immediate message may find the network busy, when preparing or when sending.
SendAm(r, m, id, busyPrepare, busySend) ==
  LET done == prepare_am(r, m, id, busyPrepare)
      p    == [done.p EXCEPT !.pc = @ + 1]
  IN
  /\ m.how # "deferred"
  /\ (busyPrepare \/ busySend) => m.immediate
  /\ CanAllocate(proc[r].heap, AskedFor(m), 16)
  /\ IF done.am.where = "threw"
     THEN proc' = [proc EXCEPT ![r] = p] /\ ran' = [ran EXCEPT ![id] = Threw] /\ UNCHANGED net
     ELSE SendPrepared(r, p, done.am, busySend)

\* prepare_deferred_am_master: the buffer is moved into what will send it.
PrepareDeferred(r, m, id) ==
  LET done == prepare_am(r, m, id, FALSE)
      p    == [done.p EXCEPT !.pc = @ + 1]
      am   == Moved(done.am)
  IN
  /\ m.how = "deferred" /\ CanAllocate(proc[r].heap, AskedFor(m), 16)
  /\ IF done.am.where = "threw"
     THEN proc' = [proc EXCEPT ![r] = p] /\ ran' = [ran EXCEPT ![id] = Threw]
     ELSE /\ proc' = [proc EXCEPT ![r] = [Destruct(p, am.from) EXCEPT !.held = @ \cup {am.to}]]
          /\ UNCHANGED ran
  /\ UNCHANGED net
SendDeferred(r, am) ==
  /\ am \in proc[r].held /\ SendPrepared(r, [proc[r] EXCEPT !.held = @ \ {am}], am, FALSE)

-----------------------------------------------------------------------------
\* Handlers.  A process polls from the registration of its handlers to the end of finalize.
Attentive(r) == proc[r].phase \in {"wait", "run", "barrier", "reduce", "exit"}
TargetPersona(m) == IF m.how = "persona" THEN m.per ELSE "master"

\* am_eager_master, am_eager_persona: a copy is enqueued.
am_eager(r, msg) ==
  /\ msg.kind = "eager"
  /\ proc' = [proc EXCEPT ![r] = EnqueueOn(Malloc(@, <<"recv", msg.id>>), TargetPersona(msg.m), msg.m.level,
                                            [what |-> "rpc", rdzv |-> FALSE, msg |-> msg])]
  /\ net' = net \ {msg}
am_rdzv(r, msg) ==
  /\ msg.kind = "rdzv"
  /\ proc' = [proc EXCEPT ![r] = EnqueueOn(Malloc(@, <<"note", msg.id>>), TargetPersona(msg.m), "internal",
                                            [what |-> "note", rdzv |-> TRUE, msg |-> msg])]
  /\ net' = net \ {msg}
\* am_eager_restricted: runs in the handler; the ones modelled give a payload back.
am_eager_restricted(r, msg) ==
  /\ msg.kind = "free"
  /\ proc' = [proc EXCEPT ![r].heap = deallocate(@, msg.addr, "rdzv")]
  /\ net' = net \ {msg}
Poll(r) == \E msg \in {x \in net : x.to = r} :
  /\ Attentive(r) /\ (am_eager(r, msg) \/ am_rdzv(r, msg) \/ am_eager_restricted(r, msg)) /\ UNCHANGED <<job, ran>>

PayloadThere(msg) == \E b \in proc[msg.from].heap.blocks : b.at = msg.addr /\ b.kind = "rdzv"

\* The lambda of send_am_rdzv.  A local payload is used where it lies; a remote one is
\* fetched into a landing zone.
TakeLocal(p, per, msg) ==
  EnqueueOn(Malloc(p, <<"lpc", msg.id>>), per, msg.m.level, [what |-> "rpc", rdzv |-> TRUE, msg |-> msg])
TakeRemote(p, per, msg) == [Malloc(p, <<"lz", msg.id>>) EXCEPT !.gets = @ \cup {[per |-> per, msg |-> msg]}]
RunNote(r, p, per, e) ==
  /\ e.what = "note"
  /\ proc' = [proc EXCEPT ![r] = Free(IF rank_is_local(r, e.msg.from) THEN TakeLocal(p, per, e.msg)
                                      ELSE TakeRemote(p, per, e.msg), <<"note", e.msg.id>>)]
  /\ UNCHANGED <<net, ran>>

\* rpc_as_lpc::cleanup, chosen by the sender's bound; the private heap does not know an
\* address of the shared heap.
CleanupEager(p, e)  == Free(p, <<"recv", e.msg.id>>)
CleanupRemote(p, e) == Free(p, <<"lz", e.msg.id>>)
CleanupLocal(p, e)  == Free(p, <<"lpc", e.msg.id>>)
Cleaned(r, p, e) ==
  CASE definitely_not_rdzv(e.msg.m) \/ ~e.rdzv -> CleanupEager(p, e)
    [] ~definitely_not_rdzv(e.msg.m) /\ e.rdzv ->
         IF rank_is_local(r, e.msg.from) THEN CleanupLocal(p, e) ELSE CleanupRemote(p, e)
SendsFree(r, e) == e.rdzv /\ ~definitely_not_rdzv(e.msg.m) /\ rank_is_local(r, e.msg.from)

RunRpc(r, p, e) ==
  LET there == IF e.rdzv /\ rank_is_local(r, e.msg.from) THEN PayloadThere(e.msg) ELSE TRUE IN
  /\ e.what = "rpc"
  /\ proc' = [proc EXCEPT ![r] = [Cleaned(r, p, e) EXCEPT !.fault = @ \/ ~there]]
  /\ ran' = [ran EXCEPT ![e.msg.id] = IF @ = Threw THEN 2 ELSE @ + 1]
  /\ net' = IF SendsFree(r, e) THEN net \cup {FreeMessage(r, e.msg.from, e.msg.id, e.msg.addr)} ELSE net

\* Progress of one persona at one level.  Waits below user level run internal work only.
UserProgress(r) == proc[r].phase \in {"run", "barrier"}
RunNext(r, per, level) ==
  LET e == Head(proc[r].q[per][level])
      p == [proc[r] EXCEPT !.q[per][level] = Tail(@)]
  IN
  /\ proc[r].phase \in {"run", "barrier", "reduce"} /\ proc[r].q[per][level] # <<>>
  /\ level = "user" => UserProgress(r)
  /\ RunNote(r, p, per, e) \/ RunRpc(r, p, e)
  /\ UNCHANGED job

\* The callback of rma_get, in internal progress: the command is enqueued and the source
\* may free its payload.
GetDone(r, g) ==
  /\ proc[r].phase \in {"run", "barrier", "reduce"} /\ g \in proc[r].gets
  /\ proc' = [proc EXCEPT ![r] = [EnqueueOn(@, g.per, g.msg.m.level, [what |-> "rpc", rdzv |-> TRUE, msg |-> g.msg])
                                    EXCEPT !.gets = @ \ {g}, !.fault = @ \/ ~PayloadThere(g.msg)]]
  /\ net' = net \cup {FreeMessage(r, g.msg.from, g.msg.id, g.msg.addr)}
  /\ UNCHANGED <<job, ran>>

-----------------------------------------------------------------------------
Queued(r, what) == {<<per, level, i>> \in Personas \X Levels \X (1..20) :
                      i <= Len(proc[r].q[per][level]) /\ proc[r].q[per][level][i].what = what}
EntryAt(r, k) == proc[r].q[k[1]][k[2]][k[3]]
\* Who still answers for the shared payload of message id: its sender before sending, the
\* rendezvous message, the queued note, the pending get, the queued call of a local
\* target, or the message that frees it.
Carriers(id) ==
  {<<"held", r>> : r \in {r \in Ranks : \E am \in proc[r].held : am.id = id /\ ~am.eager}}
  \cup {<<"net", x.kind>> : x \in {x \in net : x.id = id /\ x.kind \in {"rdzv", "free"}}}
  \cup UNION {{<<"note", r, k>> : k \in {k \in Queued(r, "note") : EntryAt(r, k).msg.id = id}} : r \in Ranks}
  \cup UNION {{<<"call", r, k>> : k \in {k \in Queued(r, "rpc") :
          EntryAt(r, k).msg.id = id /\ EntryAt(r, k).rdzv /\ rank_is_local(r, EntryAt(r, k).msg.from)}} : r \in Ranks}
  \cup {<<"get", r>> : r \in {r \in Ranks : \E g \in proc[r].gets : g.msg.id = id}}
RdzvBlocks(r) == {b \in proc[r].heap.blocks : b.kind = "rdzv"}
CarriersExact ==
  /\ \A r \in Ranks : Cardinality(RdzvBlocks(r)) =
                        Cardinality({id \in DOMAIN ran : id[1] = r /\ Carriers(id) # {}})
  /\ \A id \in DOMAIN ran : Cardinality(Carriers(id)) <= 1
\* A message runs at most once, and not after it was refused; an eager one fits a medium
\* message of the network.
RunsOnce == /\ \A id \in DOMAIN ran : ran[id] \in {0, 1, Threw}
            /\ \A x \in net : x.kind = "eager" => AskedFor(x.m) <= MediumMax
HeapsExact == \A r \in Ranks : FootprintsExact(proc[r].heap) /\ BlocksApart(proc[r].heap)
NoFault == \A r \in Ranks : ~proc[r].fault /\ ~proc[r].heap.fault
\* Sending keeps the heaps exact: every rendezvous payload has exactly one party that will
\* free it, nothing is read after or freed twice, no message runs twice.
MessagesExact == NoFault /\ RunsOnce /\ HeapsExact /\ CarriersExact
===============================================================================
