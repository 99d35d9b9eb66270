----------------------------- MODULE AtomicDomain -----------------------------
(***************************************************************************)
(* atomic_domain: created and destroyed collectively, moved, and used for  *)
(* atomic operations on one word per rank, which GASNet performs at the    *)
(* target some time after the call (external).                             *)
(***************************************************************************)
EXTENDS Teams

VARIABLES
  ads,    \* ads[r]: the atomic_domain objects of r: operations, GASNet's domain, team
  aops,   \* operations in flight
  word,   \* word[r]: the shared word of r
  live    \* live[r]: GASNet's domains at r

adVars == <<ads, aops, word, live>>

AdSlots  == {"x", "y"}
Inactive == [ops |-> {}, handle |-> Tomb, team |-> "none"]
AdInit == /\ ads = [r \in Ranks |-> [s \in AdSlots |-> Inactive]]
          /\ aops = {} /\ word = [r \in Ranks |-> 0] /\ live = [r \in Ranks |-> {}]
AdOf(r) == ads[r][CallOf(r).slot]
ad_is_active(a) == a.ops # {}

\* The constructor: a set of operations, no bit operations on floating point; a debug
\* build of GASNet is preceded by a barrier.  GASNet names the domain by its place among
\* the calls (external).
BitOps == {"bit_and", "fetch_bit_and", "bit_or", "fetch_bit_or", "bit_xor", "fetch_bit_xor"}
AdArguments(c) == c.ops # {} /\ (c.floating => c.ops \cap BitOps = {})
ad_quiesce(r) ==
  /\ AtCall(r, {"ad_create"}) /\ is_active(TeamOf(r)) /\ AdArguments(CallOf(r)) /\ CallOf(r).debug
  /\ quiesce(r, TeamOf(r), "user") /\ UNCHANGED <<size, prog, tms, reg, msgs, out, scratch, ads, aops, word, live>>
ad_create(r) ==
  /\ at[r].pc \in DOMAIN prog /\ CallOf(r).op = "ad_create" /\ is_active(TeamOf(r)) /\ AdArguments(CallOf(r))
  /\ Quiesced(r, TeamOf(r), IF CallOf(r).debug THEN "user" ELSE "none")
  /\ LET h == <<at[r].pc>> IN
     /\ ads' = [ads EXCEPT ![r][CallOf(r).slot] = [ops |-> CallOf(r).ops, handle |-> h, team |-> CallOf(r).team]]
     /\ live' = [live EXCEPT ![r] = @ \cup {h}]
  /\ Proceed(r) /\ UNCHANGED <<size, prog, tms, reg, gexn, msgs, out, scratch, aops, word>>

ad_move(r) ==
  LET c == CallOf(r) IN
  /\ AtCall(r, {"ad_move"}) /\ ~ad_is_active(ads[r][c.into])
  /\ ads' = [ads EXCEPT ![r] = [@ EXCEPT ![c.into] = ads[r][c.slot], ![c.slot] = Inactive]]
  /\ Proceed(r) /\ UNCHANGED <<size, prog, tms, reg, gexn, msgs, out, scratch, aops, word, live>>

\* destroy: quiesce on the domain's team, then GASNet's domain and the three fields.
ad_destroy(r) ==
  /\ AtCall(r, {"ad_destroy"}) /\ ad_is_active(AdOf(r))
  /\ quiesce(r, tms[r][AdOf(r).team], CallOf(r).eb)
  /\ UNCHANGED <<size, prog, tms, reg, msgs, out, scratch, ads, aops, word, live>>
\* Faulty variant: the barrier is entered but not waited for.
ad_destroy_early(r) ==
  /\ at[r].pc \in DOMAIN prog /\ CallOf(r).op = "ad_destroy" /\ ad_is_active(AdOf(r))
  /\ live' = [live EXCEPT ![r] = @ \ {AdOf(r).handle}]
  /\ ads' = [ads EXCEPT ![r][CallOf(r).slot] = Inactive]
  /\ Proceed(r) /\ UNCHANGED <<size, prog, tms, reg, gexn, msgs, out, scratch, aops, word>>
ad_destroy_returns(r) ==
  /\ at[r].pc \in DOMAIN prog /\ CallOf(r).op = "ad_destroy" /\ ad_is_active(AdOf(r))
  /\ Quiesced(r, tms[r][AdOf(r).team], CallOf(r).eb)
  /\ live' = [live EXCEPT ![r] = @ \ {AdOf(r).handle}]
  /\ ads' = [ads EXCEPT ![r][CallOf(r).slot] = Inactive]
  /\ Proceed(r) /\ UNCHANGED <<size, prog, tms, reg, gexn, msgs, out, scratch, aops, word>>

\* A method: GASNet's operation and its two operands.
Opcode(meth, v1, v2) ==
  CASE meth \in {"load", "inc", "dec", "fetch_inc", "fetch_dec"} -> <<meth, 0, 0>>
    [] meth = "compare_exchange" -> <<meth, v1, v2>>
    [] OTHER -> <<meth, v1, 0>>

\* What GASNet does to the word (external).
GexAtomic(o, w) ==
  CASE o[1] = "load" -> w
    [] o[1] = "store" -> o[2]
    [] o[1] \in {"inc", "fetch_inc"} -> w + 1
    [] o[1] \in {"dec", "fetch_dec"} -> w - 1
    [] o[1] \in {"add", "fetch_add"} -> w + o[2]
    [] o[1] \in {"sub", "fetch_sub"} -> w - o[2]
    [] o[1] \in {"mul", "fetch_mul"} -> w * o[2]
    [] o[1] \in {"min", "fetch_min"} -> IF w < o[2] THEN w ELSE o[2]
    [] o[1] \in {"max", "fetch_max"} -> IF w > o[2] THEN w ELSE o[2]
    [] o[1] = "compare_exchange" -> IF w = o[2] THEN o[3] ELSE w
Fetches(meth) == meth \in {"load", "compare_exchange", "fetch_inc", "fetch_dec", "fetch_add", "fetch_sub", "fetch_mul", "fetch_min", "fetch_max"}

\* The call, its effect at the target, and its completion at the caller.
ad_op(r) ==
  LET c == CallOf(r) IN
  /\ AtCall(r, {"atomic"}) /\ ad_is_active(AdOf(r)) /\ c.meth[r] \in AdOf(r).ops
  /\ c.target \in Range(tms[r][AdOf(r).team].members)
  /\ aops' = aops \cup {[r |-> r, i |-> at[r].pc, to |-> c.target, h |-> AdOf(r).handle,
                         o |-> Opcode(c.meth[r], c.v1[r], c.v2[r]), val |-> Owed]}
  /\ out' = [out EXCEPT ![r][at[r].pc] = Owed]
  /\ Proceed(r) /\ UNCHANGED <<size, prog, tms, reg, gexn, msgs, scratch, ads, word, live>>
ad_effect(a) ==
  /\ a.val = Owed
  /\ word' = [word EXCEPT ![a.to] = GexAtomic(a.o, @)]
  /\ aops' = (aops \ {a}) \cup {[a EXCEPT !.val = IF Fetches(a.o[1]) THEN word[a.to] ELSE 0]}
  /\ UNCHANGED <<size, prog, at, tms, reg, gexn, msgs, out, scratch, ads, live>>
ad_done(a) ==
  /\ a.val # Owed /\ Progresses(a.r, "internal")
  /\ aops' = aops \ {a} /\ out' = Told(out, a.r, a.i, a.val)
  /\ UNCHANGED <<size, prog, at, tms, reg, gexn, msgs, scratch, ads, word, live>>

AdCall(r) == ad_quiesce(r) \/ ad_create(r) \/ ad_move(r) \/ ad_destroy(r) \/ ad_destroy_returns(r) \/ ad_op(r)
AdEvent == \E a \in aops : ad_effect(a) \/ ad_done(a)
===============================================================================
