------------------------------ MODULE TeamProgram ------------------------------
(***************************************************************************)
(* Programs of collective calls: teams, reductions, broadcasts and         *)
(* barriers, distributed objects and atomic domains on one registry.       *)
(***************************************************************************)
EXTENDS Collectives, DistObject, AtomicDomain

vars == <<teamVars, pend, distVars, adVars>>

Init == TeamsInit /\ CollInit /\ DistInit /\ AdInit

Finished == /\ \A r \in Ranks : at[r].pc = Len(prog) + 1 /\ duty[r] = {}
            /\ msgs = {} /\ pend = {} /\ aops = {}
Stop == Finished /\ UNCHANGED vars

Next == \/ \E r \in Ranks : \/ TeamsNext(r) /\ UNCHANGED <<pend, distVars, adVars>>
                            \/ CollCall(r) /\ UNCHANGED <<distVars, adVars>>
                            \/ DistCall(r) /\ UNCHANGED <<pend, adVars>>
                            \/ AdCall(r) /\ UNCHANGED <<pend, distVars>>
        \/ CollEvent /\ UNCHANGED <<distVars, adVars>>
        \/ DistEvent /\ UNCHANGED <<pend, adVars>>
        \/ AdEvent /\ UNCHANGED <<pend, distVars>>
        \/ Stop

\* Every rank goes on with its program and calls progress again and again.
Spec == Init /\ [][Next]_vars /\ WF_vars(Next)

-----------------------------------------------------------------------------
\* The registry knows each live team by its id and nothing of a dead one; its other
\* entries are what the messages about them and the calls to come take them for (they
\* are cast without a check); a team a message names is there; a finished program leaves
\* teams and distributed objects only.  A team id means the same members everywhere.
MessageKind == [contribute |-> "reduce", result |-> "reduce", bcast |-> "bcast", fetch |-> "promise"]
TeamsRegistered(r) ==
  /\ \A s \in Slots : is_active(tms[r][s]) => Has(r, tms[r][s].id) /\ reg[r][tms[r][s].id] = [kind |-> "team", slot |-> s]
  /\ \A id \in DOMAIN reg[r] : reg[r][id].kind = "team" => tms[r][reg[r][id].slot].id = id
  /\ \A q \in Ranks : \A s, u \in Slots :
       is_active(tms[r][s]) /\ tms[r][s].id = tms[q][u].id => tms[r][s].members = tms[q][u].members
  /\ scratch[r] = Cardinality({s \in Slots \ {"world"} : is_active(tms[r][s])})
                  + (IF Blocked(r, {"split", "create"}) /\ Joins(CallOf(r), r) THEN 1 ELSE 0)
MessagesUnderstood ==
  \A m \in msgs :
    /\ m.kind \in DOMAIN MessageKind /\ Has(m.to, m.id) =>
         reg[m.to][m.id].kind = MessageKind[m.kind] /\ (m.kind # "fetch" => reg[m.to][m.id].i = m.i)
    /\ m.kind = "contribute" /\ Progresses(m.to, "internal") => HereTeam(m)
    /\ m.kind = "result" => Has(m.to, m.id) /\ reg[m.to][m.id].cxs
EntriesDue(r) ==
  \A id \in DOMAIN reg[r] : LET e == reg[r][id] IN
    /\ e.kind = "reduce" => (e.incoming = 0 => e.cxs /\ ~OneNotAll(e.i)) /\ (e.cxs <=> out[r][e.i] = Owed)
    /\ e.kind = "bcast"  => e.awaiting = 1 /\ (e.val = None <=> out[r][e.i] = Owed)
    /\ e.kind \in {"reduce", "bcast"} => ~Finished
    /\ e.kind = "promise" => id \in DOMAIN box[r]
RegistryExact == MessagesUnderstood /\ \A r \in Ranks : TeamsRegistered(r) /\ EntriesDue(r)

\* A collective tells each caller once, and then what it should: every member's part
\* combined by the operator asked for, the root's value, the object's value; after an
\* asynchronous barrier every member has called it.
Combined(c) == FoldLeft(LAMBDA a, p : Opfn(c.fn, c.ty, a, c.val[p]), c.val[Head(c.who)], Tail(c.who))
SumOf(c) == FoldLeft(LAMBDA a, p : a + c.val[p], 0, c.who)
RootOf(c) == c.who[c.root + 1]
Expected(r, i) ==
  LET c == prog[i] IN
  CASE c.op \in ToAll -> {Combined(c)}
    [] c.op \in ToOne -> IF r = RootOf(c) THEN {Combined(c)} ELSE {c.val[r], Untouched}
    [] c.op = "reduce_all_nontrivial" -> {SumOf(c)}
    [] c.op = "reduce_one_nontrivial" -> IF r = RootOf(c) THEN {SumOf(c)} ELSE Nat
    [] c.op \in Bcasts \cup {"broadcast_nontrivial"} -> {c.val[RootOf(c)]}
    [] c.op = "barrier_async" -> IF \A p \in Range(c.who) : out[p][i] # None THEN {0} ELSE {}
    [] c.op = "fetch" -> {c.expect[r]}
    [] OTHER -> Int \ {None, Owed, Twice}
ResultsExact == \A r \in Ranks : \A i \in DOMAIN prog : out[r][i] \in {None, Owed} \cup Expected(r, i)

\* A promise of a distributed object lives as long as the registry, a fulfillment or a
\* waiting rpc refers to it, and while the object lives it leads to where the object is.
ObjectsLive ==
  \A r \in Ranks :
    /\ duty[r] \subseteq DOMAIN box[r]
    /\ \A id \in DOMAIN box[r] : LET b == box[r][id] IN
         /\ b.refs = (IF Has(r, id) THEN 1 ELSE 0) + (IF id \in duty[r] THEN 1 ELSE 0) + Cardinality(b.waiting)
         /\ b.refs > 0 /\ (b.done => b.waiting = {})
         /\ Has(r, id) /\ b.result # NoResult => dob[r][b.result].id = id
    /\ \A s \in DobSlots : dob[r][s].id # Tomb => Has(r, dob[r][s].id)

\* No atomic operation is under way on a domain that its caller or its target has
\* destroyed; an object is active with a domain of GASNet's or neither; and the results
\* of concurrent operations are those of one after the other in some order.
AtomicCalls == {i \in DOMAIN prog : prog[i].op = "atomic"}
SeqResult(i, s) ==
  FoldLeft(LAMBDA a, r : LET c == prog[i]  w == GexAtomic(<<c.meth[r], c.v1[r], c.v2[r]>>, a.w) IN
             [w |-> w, ok |-> a.ok /\ out[r][i] = (IF Fetches(c.meth[r]) THEN a.w ELSE 0)],
           [w |-> 0, ok |-> TRUE], s)
DomainsQuiesced ==
  /\ \A a \in aops : a.val = Owed => a.h \in live[a.r] \cap live[a.to]
  /\ \A r \in Ranks : /\ \A s \in AdSlots : ads[r][s].ops = {} <=> ads[r][s].handle = Tomb
                      /\ live[r] = {ads[r][s].handle : s \in {u \in AdSlots : ad_is_active(ads[r][u])}}
  /\ \A i \in AtomicCalls :
       (\A r \in Ranks : out[r][i] \notin {None, Owed}) =>
          \E s \in SetToSeqs(Ranks) : LET e == SeqResult(i, s) IN e.ok /\ e.w = word[prog[i].target]

\* Every call of every rank returns and every operation completes.
EveryoneFinishes == <>(Finished /\ \A r \in Ranks : \A i \in DOMAIN prog : out[r][i] # Owed)
===============================================================================
