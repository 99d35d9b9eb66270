------------------------------ MODULE DistObject ------------------------------
(***************************************************************************)
(* Distributed objects.  The registry keeps a promise of the local object, *)
(* made by the constructor or by the first rpc that needs it; its          *)
(* fulfillment waits for user-level progress, the promise is counted.      *)
(***************************************************************************)
EXTENDS Teams

VARIABLES
  dob,   \* dob[r]: the dist_object objects of r
  box,   \* box[r]: the promises, by id: references, result, fulfilled, waiting rpcs
  duty   \* duty[r]: fulfillments queued for user-level progress

distVars == <<dob, box, duty>>

DobSlots == {"a", "b"}
NoObject == [id |-> Tomb, team |-> "none", val |-> None]
NoResult == "none"

DistInit == /\ dob = [r \in Ranks |-> [s \in DobSlots |-> NoObject]]
            /\ box = [r \in Ranks |-> <<>>]
            /\ duty = [r \in Ranks |-> {}]

\* registered_promise: the one of this id, made and entered if there is none.
NewPromise == [refs |-> 1, result |-> NoResult, done |-> FALSE, waiting |-> {}]
HasPromise(r, id) == Has(r, id) => reg[r][id].kind = "promise"
registered_promise(r, id) == IF Has(r, id) THEN box[r][id] ELSE NewPromise
Registered(r, id) == IF Has(r, id) THEN reg ELSE [reg EXCEPT ![r] = Put(@, id, [kind |-> "promise"])]
dropref(f, id) == IF f[id].refs = 1 THEN Drop(f, id) ELSE [f EXCEPT ![id].refs = @ - 1]

\* create_: the next collective id of the team; a reference for the fulfillment to come.
create_(r, slot, val) ==
  LET t  == TeamOf(r)
      id == next_collective_id(t)
  IN  /\ HasPromise(r, id)
      /\ dob' = [dob EXCEPT ![r][slot] = [id |-> id, team |-> CallOf(r).team, val |-> val]]
      /\ box' = [box EXCEPT ![r] = Put(@, id, [registered_promise(r, id) EXCEPT !.refs = @ + 1, !.result = slot])]
      /\ duty' = [duty EXCEPT ![r] = @ \cup {id}]
      /\ reg' = Registered(r, id)
      /\ tms' = [tms EXCEPT ![r][CallOf(r).team] = Counted(t)]
dist_object(r) ==
  /\ AtCall(r, {"dist_object"}) /\ is_active(TeamOf(r))
  /\ create_(r, CallOf(r).slot, CallOf(r).val[r])
  /\ Proceed(r) /\ UNCHANGED <<size, prog, gexn, msgs, out, scratch>>

\* An inactive object, given its value now and its team later.
inactive(r) ==
  /\ AtCall(r, {"inactive"})
  /\ dob' = [dob EXCEPT ![r][CallOf(r).slot] = [NoObject EXCEPT !.val = CallOf(r).val[r]]]
  /\ Proceed(r) /\ UNCHANGED <<size, prog, tms, reg, gexn, msgs, out, scratch, box, duty>>
activate(r) ==
  /\ AtCall(r, {"activate"}) /\ is_active(TeamOf(r))
  /\ LET o == dob[r][CallOf(r).slot] IN o.id = Tomb /\ o.val # None /\ create_(r, CallOf(r).slot, o.val)
  /\ Proceed(r) /\ UNCHANGED <<size, prog, gexn, msgs, out, scratch>>

\* User-level progress fulfills the promise: the waiting rpcs run on its result, which is
\* read now, and reply; the reference is dropped.
ValueAt(r, slot) == dob[r][slot].val
Reply(w, v) == [kind |-> "reply", to |-> w.from, level |-> "user", id |-> w.id, i |-> w.i, val |-> v]
fulfill(r, id) ==
  /\ id \in duty[r] /\ Progresses(r, "user") /\ box[r][id].result # NoResult
  /\ duty' = [duty EXCEPT ![r] = @ \ {id}]
  /\ msgs' = msgs \cup {Reply(w, ValueAt(r, box[r][id].result)) : w \in box[r][id].waiting}
  /\ box' = [box EXCEPT ![r] = dropref([@ EXCEPT ![id].done = TRUE, ![id].waiting = {},
                                                 ![id].refs = @ - Cardinality(box[r][id].waiting)], id)]
  /\ UNCHANGED <<size, prog, at, tms, reg, gexn, out, scratch, dob>>

\* Faulty variant: the promise keeps the old address.
dist_move_stale(r) ==
  LET from == CallOf(r).slot  into == CallOf(r).into IN
  /\ AtCall(r, {"dist_move"}) /\ dob[r][into].id = Tomb
  /\ dob' = [dob EXCEPT ![r] = [@ EXCEPT ![into] = dob[r][from], ![from] = NoObject]]
  /\ Proceed(r) /\ UNCHANGED <<size, prog, tms, reg, gexn, msgs, out, scratch, box, duty>>

\* Move assignment to an inactive object, which overwrites the promise's result.
dist_move(r) ==
  LET from == CallOf(r).slot  into == CallOf(r).into IN
  /\ AtCall(r, {"dist_move"}) /\ dob[r][into].id = Tomb
  /\ dob' = [dob EXCEPT ![r] = [@ EXCEPT ![into] = dob[r][from], ![from] = NoObject]]
  /\ box' = IF dob[r][from].id # Tomb THEN [box EXCEPT ![r][dob[r][from].id].result = into] ELSE box
  /\ Proceed(r) /\ UNCHANGED <<size, prog, tms, reg, gexn, msgs, out, scratch, duty>>

\* The destructor drops the registry's reference and the entry.
dist_destroy(r) ==
  /\ AtCall(r, {"dist_destroy"})
  /\ LET s == CallOf(r).slot  id == dob[r][s].id IN
     /\ dob' = [dob EXCEPT ![r][s] = NoObject]
     /\ IF id = Tomb THEN UNCHANGED <<box, reg>>
        ELSE box' = [box EXCEPT ![r] = dropref(@, id)] /\ reg' = [reg EXCEPT ![r] = Drop(@, id)]
  /\ Proceed(r) /\ UNCHANGED <<size, prog, tms, gexn, msgs, out, scratch, duty>>

\* fetch: an rpc that is sent the id and waits there for the object.
fetch(r) ==
  /\ AtCall(r, {"fetch"})
  /\ LET o == dob[r][CallOf(r).slot]  t == tms[r][o.team] IN
     /\ o.id # Tomb
     /\ msgs' = msgs \cup {[kind |-> "fetch", to |-> to_world(t, (rank_me(t, r) + CallOf(r).ahead) % rank_n(t)),
                            level |-> "user", id |-> o.id, i |-> at[r].pc, from |-> r]}
  /\ out' = [out EXCEPT ![r][at[r].pc] = Owed]
  /\ Proceed(r) /\ UNCHANGED <<size, prog, tms, reg, gexn, scratch, dob, box, duty>>
when_here(m) ==
  /\ m.kind = "fetch" /\ Progresses(m.to, "user") /\ HasPromise(m.to, m.id)
  /\ LET pro == registered_promise(m.to, m.id)
         w   == [from |-> m.from, i |-> m.i, id |-> m.id]
     IN  /\ box' = [box EXCEPT ![m.to] = Put(@, m.id, IF pro.done THEN pro
                                                      ELSE [pro EXCEPT !.waiting = @ \cup {w}, !.refs = @ + 1])]
         /\ reg' = Registered(m.to, m.id)
         /\ msgs' = (msgs \ {m}) \cup (IF pro.done THEN {Reply(w, ValueAt(m.to, pro.result))} ELSE {})
  /\ UNCHANGED <<size, prog, at, tms, gexn, out, scratch, dob, duty>>
reply_arrives(m) ==
  /\ m.kind = "reply" /\ Progresses(m.to, "user")
  /\ out' = Told(out, m.to, m.i, m.val) /\ msgs' = msgs \ {m}
  /\ UNCHANGED <<size, prog, at, tms, reg, gexn, scratch, dob, box, duty>>

DistCall(r) == dist_object(r) \/ inactive(r) \/ activate(r) \/ dist_move(r) \/ dist_destroy(r) \/ fetch(r)
DistEvent == \/ \E r \in Ranks : \E id \in duty[r] : fulfill(r, id)
             \/ \E m \in msgs : when_here(m) \/ reply_arrives(m)
===============================================================================
