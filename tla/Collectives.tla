------------------------------ MODULE Collectives ------------------------------
(***************************************************************************)
(* Reductions, broadcasts and the asynchronous barrier of a team.  Those   *)
(* on trivially serializable types are GASNet's, with a handle callback;   *)
(* the others are trees of active messages whose state is found through    *)
(* the registry.  The broadcast of messages is that of BcastAm.            *)
(***************************************************************************)
EXTENDS Teams

VARIABLE pend   \* handle callbacks that wait for a GASNet collective

CollInit == pend = {}

-----------------------------------------------------------------------------
\* The function objects of the named operators, on integers and on bool; the bit
\* operators on single bits.
Larger2(a, b) == IF a > b THEN a ELSE b
Lesser2(a, b) == IF a < b THEN a ELSE b
Opfn(op, ty, a, b) ==
  CASE op = "add" -> IF ty = "bool" THEN Larger2(a, b) ELSE a + b
    [] op = "mul" -> IF ty = "bool" THEN Lesser2(a, b) ELSE a * b
    [] op = "bit_and" -> Lesser2(a, b)
    [] op = "bit_or"  -> Larger2(a, b)
    [] op = "bit_xor" -> (a + b) % 2
    [] op = "min" -> Lesser2(a, b)
    [] op = "max" -> Larger2(a, b)

IntegralOnly(op) == op \in {"bit_and", "bit_or", "bit_xor"}
Integral == {"bool", "i8", "i32", "u32", "i64", "u64"}
Floating == {"flt", "dbl"}
Bits(ty) == CASE ty \in {"bool", "i8"} -> 8 [] ty \in {"i32", "u32", "flt"} -> 32 [] OTHER -> 64
\* Faulty variant: the size of the type is not looked at.
HasFastAnySize(op, ty) == ty \in Integral \/ (~IntegralOnly(op) /\ ty \in Floating)
reduce_op_has_fast(op, ty) == (ty \in Integral \/ (~IntegralOnly(op) /\ ty \in Floating)) /\ Bits(ty) \in {32, 64}

\* The names GASNet knows operators and types by.
fast_op_id == [add |-> "ADD", mul |-> "MULT", min |-> "MIN", max |-> "MAX",
               bit_and |-> "AND", bit_or |-> "OR", bit_xor |-> "XOR"]
reduce_op_best_id(op, ty) == IF reduce_op_has_fast(op, ty) THEN fast_op_id[op] ELSE "USER"

\* GASNet's operators (external), and the callback for an operator it does not know.
op_vecfn(op, ty, a, b) == Opfn(op, ty, a, b)
GexOp(gop, op, ty, a, b) ==
  CASE gop = "ADD" -> a + b [] gop = "MULT" -> a * b [] gop = "MIN" -> Lesser2(a, b) [] gop = "MAX" -> Larger2(a, b)
    [] gop = "AND" -> Lesser2(a, b) [] gop = "OR" -> Larger2(a, b) [] gop = "XOR" -> (a + b) % 2
    [] gop = "USER" -> op_vecfn(op, ty, a, b)
GexReduce(c, t) ==
  FoldLeft(LAMBDA a, p : GexOp(reduce_op_best_id(c.fn, c.ty), c.fn, c.ty, a, c.val[p]), c.val[Head(t.members)], Tail(t.members))

-----------------------------------------------------------------------------
\* A call that injects a GASNet collective and leaves a callback for its handle.
Inject(r) ==
  LET t == TeamOf(r) IN
  /\ is_active(t) /\ Enter(r, t.handle)
  /\ pend' = pend \cup {[r |-> r, i |-> at[r].pc, t |-> t, k |-> Tickets(r, t.handle) + 1]}
  /\ out' = [out EXCEPT ![r][at[r].pc] = Owed]
  /\ Proceed(r) /\ UNCHANGED <<size, prog, tms, reg, msgs, scratch>>
RootInTeam(r) == CallOf(r).root \in 0..rank_n(TeamOf(r)) - 1

reduce_one(r)       == AtCall(r, {"reduce_one"}) /\ RootInTeam(r) /\ Inject(r)
reduce_one_bulk(r)  == AtCall(r, {"reduce_one_bulk"}) /\ RootInTeam(r) /\ Inject(r)
reduce_all(r)       == AtCall(r, {"reduce_all"}) /\ Inject(r)
reduce_all_bulk(r)  == AtCall(r, {"reduce_all_bulk"}) /\ Inject(r)
broadcast(r)        == AtCall(r, {"broadcast"}) /\ RootInTeam(r) /\ Inject(r)
broadcast_bulk(r)   == AtCall(r, {"broadcast_bulk"}) /\ RootInTeam(r) /\ Inject(r)
barrier_async(r)    == AtCall(r, {"barrier_async"}) /\ Inject(r)

\* When GASNet may call the collective done for this rank (external).
ToAll == {"reduce_all", "reduce_all_bulk"}
ToOne == {"reduce_one", "reduce_one_bulk"}
Bcasts == {"broadcast", "broadcast_bulk"}
IsRoot(p) == rank_me(p.t, p.r) = prog[p.i].root
EventDone(p) ==
  CASE prog[p.i].op \in ToAll \cup {"barrier_async"} -> AllEntered(p.t, p.k)
    [] prog[p.i].op \in ToOne  -> IsRoot(p) => AllEntered(p.t, p.k)
    [] prog[p.i].op \in Bcasts -> Tickets(to_world(p.t, prog[p.i].root), p.t.handle) >= p.k

\* The callbacks.  A value is reduced and broadcast in place, in the callback object: a
\* reduction to one leaves the others their own.  In bulk, GASNet writes the user's
\* buffer; what it leaves in the others' is not said.
Untouched == -1004
reduce_value_cb(p) == IF prog[p.i].op \in ToAll \/ IsRoot(p) THEN GexReduce(prog[p.i], p.t) ELSE prog[p.i].val[p.r]
reduce_bulk_cb(p)  == IF prog[p.i].op \in ToAll \/ IsRoot(p) THEN GexReduce(prog[p.i], p.t) ELSE Untouched
broadcast_cb(p)    == prog[p.i].val[to_world(p.t, prog[p.i].root)]
barrier_cb(p)      == 0
ValueOf(p) == CASE prog[p.i].op \in {"reduce_one", "reduce_all"} -> reduce_value_cb(p)
                [] prog[p.i].op \in {"reduce_one_bulk", "reduce_all_bulk"} -> reduce_bulk_cb(p)
                [] prog[p.i].op \in Bcasts -> broadcast_cb(p)
                [] prog[p.i].op = "barrier_async" -> barrier_cb(p)
execute_and_delete(p) ==
  /\ EventDone(p) /\ Progresses(p.r, "internal")
  /\ pend' = pend \ {p}
  /\ out' = Told(out, p.r, p.i, ValueOf(p))
  /\ UNCHANGED <<size, prog, at, tms, reg, gexn, msgs, scratch>>

-----------------------------------------------------------------------------
\* The tree of a reduction, on ranks turned so that the root is zero: a parent is its
\* child without the least one-bit.
BitOf(k, n) == (n \div 2^k) % 2
ChildOf(me, k) == IF BitOf(k, me) = 1 THEN me ELSE me + 2^k
LowBit(me) == CHOOSE b \in {2^k : k \in 0..me} : me % b = 0 /\ (me \div b) % 2 = 1
Children(me, n) == Cardinality({k \in 0..n : \A j \in 0..k : ChildOf(me, j) # me /\ ChildOf(me, j) < n})
Turned(p, root, n) == IF p - root < 0 THEN p - root + n ELSE p - root
ParentOf(me, root, n) == LET p == me - LowBit(me) + root IN IF p >= n THEN p - n ELSE p

OneNotAll(i) == prog[i].op = "reduce_one_nontrivial"
Others(t, r) == Range(t.members) \ {r}

\* contribute: by the local call, which brings the completions, or by a child's message;
\* the first one makes the state.  Once all have come the root tells everyone else and
\* itself, another sends what it has to its parent.
NewReduce(i, root, me, n) == [kind |-> "reduce", i |-> i, root |-> root, incoming |-> Children(me, n) + 1, accum |-> 0, cxs |-> FALSE]
contribute(r, t, root, id, i, v, call, rest) ==
  LET n    == rank_n(t)
      me   == Turned(rank_me(t, r), root, n)
      old  == IF Has(r, id) THEN reg[r][id] ELSE NewReduce(i, root, me, n)
      s    == [old EXCEPT !.accum = @ + v, !.cxs = @ \/ call, !.incoming = @ - 1]
      o    == IF call THEN [out EXCEPT ![r][i] = Owed] ELSE out
      up   == [kind |-> "contribute", to |-> to_world(t, ParentOf(me, root, n)), level |-> "internal", id |-> id,
               tid |-> t.id, root |-> root, i |-> i, val |-> s.accum, from |-> r]
      down == {[kind |-> "result", to |-> p, level |-> "user", id |-> id, i |-> i, val |-> s.accum] : p \in Others(t, r)}
  IN  IF s.incoming > 0
      THEN reg' = [reg EXCEPT ![r] = Put(@, id, s)] /\ out' = o /\ msgs' = rest
      ELSE IF me = 0
      THEN /\ reg' = [reg EXCEPT ![r] = Drop(@, id)]
           /\ out' = Told(o, r, i, s.accum)
           /\ msgs' = rest \cup (IF OneNotAll(i) THEN {} ELSE down)
      ELSE /\ msgs' = rest \cup {up}
           /\ reg' = [reg EXCEPT ![r] = IF OneNotAll(i) THEN Drop(@, id) ELSE Put(@, id, s)]
           /\ out' = IF OneNotAll(i) THEN Told(o, r, i, s.accum) ELSE o

\* digest::w0 of a collective's id picks the root of a reduction to all.
W0(id) == FoldLeft(LAMBDA a, x : a + x, 0, id)
CallReduce(r, root) ==
  LET t == TeamOf(r) IN
  /\ contribute(r, t, root, next_collective_id(t), at[r].pc, CallOf(r).val[r], TRUE, msgs)
  /\ tms' = [tms EXCEPT ![r][CallOf(r).team] = Counted(t)]
  /\ Proceed(r) /\ UNCHANGED <<size, prog, gexn, scratch, pend>>
Fits(r, id, kind, i) == Has(r, id) => reg[r][id].kind = kind /\ reg[r][id].i = i
reduce_one_nontrivial(r) ==
  /\ AtCall(r, {"reduce_one_nontrivial"}) /\ is_active(TeamOf(r)) /\ RootInTeam(r)
  /\ Fits(r, next_collective_id(TeamOf(r)), "reduce", at[r].pc)
  /\ CallReduce(r, CallOf(r).root)
reduce_all_nontrivial(r) ==
  /\ AtCall(r, {"reduce_all_nontrivial"}) /\ is_active(TeamOf(r))
  /\ Fits(r, next_collective_id(TeamOf(r)), "reduce", at[r].pc)
  /\ CallReduce(r, W0(next_collective_id(TeamOf(r))) % rank_n(TeamOf(r)))

\* A child's contribution arrives; the team is looked up by its id.
HereTeam(m) == Has(m.to, m.tid) /\ reg[m.to][m.tid].kind = "team"
contribution_arrives(m) ==
  /\ m.kind = "contribute" /\ Progresses(m.to, "internal") /\ HereTeam(m) /\ Fits(m.to, m.id, "reduce", m.i)
  /\ contribute(m.to, tms[m.to][reg[m.to][m.tid].slot], m.root, m.id, m.i, m.val, FALSE, msgs \ {m})
  /\ UNCHANGED <<size, prog, at, tms, gexn, scratch, pend>>

\* The result of a reduction to all arrives from the root.
result_arrives(m) ==
  /\ m.kind = "result" /\ Progresses(m.to, "user") /\ Has(m.to, m.id) /\ Fits(m.to, m.id, "reduce", m.i)
  /\ reg' = [reg EXCEPT ![m.to] = Drop(@, m.id)]
  /\ out' = Told(out, m.to, m.i, m.val)
  /\ msgs' = msgs \ {m} /\ UNCHANGED <<size, prog, at, tms, gexn, scratch, pend>>

-----------------------------------------------------------------------------
\* broadcast_nontrivial: the state awaits the value and the local call, in either order.
NewBcast(i) == [kind |-> "bcast", i |-> i, awaiting |-> 2, val |-> None]
StateOf(r, id, new) == IF Has(r, id) THEN reg[r][id] ELSE new
BcastContribute(r, id, s, o, by) ==
  IF s.awaiting = by THEN reg' = [reg EXCEPT ![r] = Drop(@, id)] /\ out' = Told(o, r, s.i, s.val)
  ELSE reg' = [reg EXCEPT ![r] = Put(@, id, [s EXCEPT !.awaiting = @ - by])] /\ out' = o
broadcast_nontrivial(r) ==
  /\ AtCall(r, {"broadcast_nontrivial"}) /\ is_active(TeamOf(r)) /\ RootInTeam(r)
  /\ LET t  == TeamOf(r)
         i  == at[r].pc
         id == next_collective_id(t)
         s  == StateOf(r, id, NewBcast(i))
         root == rank_me(t, r) = CallOf(r).root
         v  == CallOf(r).val[r]
     IN  /\ Fits(r, id, "bcast", i)
         /\ msgs' = msgs \cup (IF root THEN {[kind |-> "bcast", to |-> p, level |-> "user", id |-> id, i |-> i, val |-> v] : p \in Others(t, r)} ELSE {})
         /\ BcastContribute(r, id, IF root THEN [s EXCEPT !.val = v] ELSE s, [out EXCEPT ![r][i] = Owed], IF root THEN 2 ELSE 1)
         /\ tms' = [tms EXCEPT ![r][CallOf(r).team] = Counted(t)]
  /\ Proceed(r) /\ UNCHANGED <<size, prog, gexn, scratch, pend>>
value_arrives(m) ==
  /\ m.kind = "bcast" /\ Progresses(m.to, "user") /\ Fits(m.to, m.id, "bcast", m.i)
  /\ BcastContribute(m.to, m.id, [StateOf(m.to, m.id, NewBcast(m.i)) EXCEPT !.val = m.val], out, 1)
  /\ msgs' = msgs \ {m} /\ UNCHANGED <<size, prog, at, tms, gexn, scratch, pend>>

CollCall(r) == \/ reduce_one(r) \/ reduce_one_bulk(r) \/ reduce_all(r) \/ reduce_all_bulk(r)
               \/ broadcast(r) \/ broadcast_bulk(r) \/ barrier_async(r)
               \/ reduce_one_nontrivial(r) \/ reduce_all_nontrivial(r) \/ broadcast_nontrivial(r)
CollEvent == \/ \E p \in pend : execute_and_delete(p)
             \/ \E m \in msgs : contribution_arrives(m) \/ result_arrives(m) \/ value_arrives(m)
===============================================================================
