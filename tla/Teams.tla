--------------------------------- MODULE Teams ---------------------------------
(***************************************************************************)
(* Teams and the registry.  Every rank runs the same program of collective *)
(* calls at its own pace.  The registry of a rank maps the digest of a     *)
(* team, of a collective in flight or of a distributed object to its local *)
(* state; a message about a digest may arrive before the local call.       *)
(* A digest is the sequence of the values eaten (digest::eat is a hash,    *)
(* taken to be injective).  GASNet's collectives of a team match in the    *)
(* order in which each member calls them (external).                       *)
(***************************************************************************)
EXTENDS Integers, Sequences, FiniteSets, SequencesExt, FiniteSetsExt, TLC

CONSTANTS RankN,     \* at most so many ranks
          Programs   \* the jobs of the run: so many ranks run a sequence of calls

ASSUME TeamsAssumption == RankN \in Nat \ {0} /\ \A p \in Programs : p.ranks \in 1..RankN /\ Len(p.calls) \in Nat

VARIABLES
  size,   \* the number of ranks of the job
  prog,   \* the program they run
  at,     \* at[r]: the next call; what r is blocked in: "run" (not blocked), "user" or
          \*   "internal" progress, "deaf" (inside GASNet); its ticket, a user's wait
  tms,    \* tms[r]: the team objects of r
  reg,    \* reg[r]: detail::registry
  gexn,   \* gexn[r]: how many GASNet collectives of a team r has entered
  msgs,   \* active messages in flight
  out,    \* out[r][i]: what call i told its caller
  scratch \* scratch[r]: scratch buffers of teams in the shared heap

teamVars == <<size, prog, at, tms, reg, gexn, msgs, out, scratch>>

Ranks == 0..size - 1
Tomb  == <<>>
None  == -1001   \* not called
Owed  == -1002   \* called, not completed
Twice == -1003   \* completed twice

NoTeam == [id |-> Tomb, handle |-> Tomb, counter |-> 0, members |-> <<>>]
World  == [NoTeam EXCEPT !.id = <<0>>, !.handle = <<0>>, !.members = [i \in 1..size |-> i - 1]]
Slots  == {"world", "sub", "other"}

Put(f, k, v) == (k :> v) @@ f
Drop(f, k)   == [x \in DOMAIN f \ {k} |-> f[x]]
Has(r, id)   == id \in DOMAIN reg[r]

TeamsInit ==
  /\ \E job \in Programs : size = job.ranks /\ prog = job.calls
  /\ at = [r \in Ranks |-> [pc |-> 1, mode |-> "run", ticket |-> 0]]
  /\ tms = [r \in Ranks |-> [s \in Slots |-> IF s = "world" THEN World ELSE NoTeam]]
  /\ reg = [r \in Ranks |-> (World.id :> [kind |-> "team", slot |-> "world"])]
  /\ gexn = [r \in Ranks |-> (World.handle :> 0)]
  /\ msgs = {}
  /\ out = [r \in Ranks |-> [i \in DOMAIN prog |-> None]]
  /\ scratch = [r \in Ranks |-> 0]

is_active(t)  == t.id # Tomb
rank_n(t)     == Len(t.members)
rank_me(t, r) == (CHOOSE i \in DOMAIN t.members : t.members[i] = r) - 1
to_world(t, p) == t.members[p + 1]

next_collective_id(t) == Append(t.id, t.counter)
Counted(t) == [t EXCEPT !.counter = @ + 1]
invalidate(t) == [NoTeam EXCEPT !.counter = t.counter]

-----------------------------------------------------------------------------
\* The call r is about to make, and going on to the next one.
AtCall(r, ops) == at[r].mode = "run" /\ at[r].pc \in DOMAIN prog /\ prog[at[r].pc].op \in ops
CallOf(r) == prog[at[r].pc]
TeamOf(r) == tms[r][CallOf(r).team]
Proceed(r) == at' = [at EXCEPT ![r] = [pc |-> @.pc + 1, mode |-> "run", ticket |-> 0]]

\* The user guards calls on a team by its being active here.
Skip(r) ==
  /\ at[r].mode = "run" /\ at[r].pc \in DOMAIN prog
  /\ "team" \in DOMAIN CallOf(r) /\ ~is_active(TeamOf(r))
  /\ Proceed(r) /\ UNCHANGED <<size, prog, tms, reg, gexn, msgs, out, scratch>>

\* GASNet (external): the k-th collective on a team is the k-th for every member.
Tickets(r, h) == IF h \in DOMAIN gexn[r] THEN gexn[r][h] ELSE 0
Enter(r, h)   == gexn' = [gexn EXCEPT ![r] = Put(@, h, Tickets(r, h) + 1)]
AllEntered(t, k) == \A p \in Range(t.members) : Tickets(p, t.handle) >= k

\* Enter a GASNet collective and block in it, making progress of a level meanwhile.
BlockIn(r, t, mode) ==
  /\ Enter(r, t.handle)
  /\ at' = [at EXCEPT ![r].mode = mode, ![r].ticket = Tickets(r, t.handle) + 1]
Blocked(r, ops) == at[r].mode # "run" /\ prog[at[r].pc].op \in ops
Released(r, t)  == AllEntered(t, at[r].ticket)

\* quiesce: a barrier with progress of the level asked for, or nothing.
quiesce(r, t, eb) == /\ eb \in {"internal", "user"} /\ BlockIn(r, t, eb)
Quiesced(r, t, eb) == IF eb = "none" THEN at[r].mode = "run" ELSE at[r].mode = eb /\ Released(r, t)

\* Delivering an active message of a level.
Progresses(r, level) == at[r].mode \in {"run", "user"} \/ (at[r].mode = "internal" /\ level = "internal")

-----------------------------------------------------------------------------
\* The new team of r: those of its colour, by key and then by rank in the parent.
ColourNone == -1
SplitMembers(t, c, r) ==
  SortSeq(SelectSeq(t.members, LAMBDA p : c.colour[p] = c.colour[r]),
          LAMBDA p, q : c.key[p] < c.key[q] \/ (c.key[p] = c.key[q] /\ rank_me(t, p) < rank_me(t, q)))

Joins(c, r) == IF c.op = "split" THEN c.colour[r] # ColourNone ELSE c.ranks[r] # <<>>

\* split: a scratch buffer for a member, the GASNet call, in which nothing else runs,
\* then the id, the counter of the parent moving on whether or not r is a member.
team_split(r) ==
  /\ AtCall(r, {"split", "create"}) /\ is_active(TeamOf(r))
  /\ BlockIn(r, TeamOf(r), "deaf")
  /\ scratch' = [scratch EXCEPT ![r] = @ + (IF Joins(CallOf(r), r) THEN 1 ELSE 0)]
  /\ UNCHANGED <<size, prog, tms, reg, msgs, out>>

\* Faulty variant: the parent counts the call at members only.
ConstructedIfMember(r, c, t, new) ==
  /\ tms' = [tms EXCEPT ![r] = [@ EXCEPT ![c.team] = IF is_active(new) THEN Counted(t) ELSE t, ![c.into] = new]]
  /\ reg' = IF is_active(new) THEN [reg EXCEPT ![r] = Put(@, new.id, [kind |-> "team", slot |-> c.into])] ELSE reg

\* The team constructor: a valid team enters the registry.
Constructed(r, c, t, new) ==
  /\ tms' = [tms EXCEPT ![r] = [@ EXCEPT ![c.team] = Counted(t), ![c.into] = new]]
  /\ reg' = IF is_active(new) THEN [reg EXCEPT ![r] = Put(@, new.id, [kind |-> "team", slot |-> c.into])] ELSE reg

split_returns(r) ==
  /\ Blocked(r, {"split"}) /\ Released(r, TeamOf(r))
  /\ LET c  == CallOf(r)
         t  == TeamOf(r)
         id == Append(next_collective_id(t), c.colour[r])
     IN  Constructed(r, c, t, IF Joins(c, r) THEN [id |-> id, handle |-> id, counter |-> 0, members |-> SplitMembers(t, c, r)]
                              ELSE NoTeam)
  /\ Proceed(r) /\ UNCHANGED <<size, prog, gexn, msgs, out, scratch>>

\* create names its members in order; the id is made unique by the first one's rank.
create_returns(r) ==
  /\ Blocked(r, {"create"}) /\ Released(r, TeamOf(r))
  /\ LET c  == CallOf(r)
         t  == TeamOf(r)
         r0 == IF Joins(c, r) THEN to_world(t, c.ranks[r][1]) ELSE 0
         id == Append(next_collective_id(t), r0)
     IN  Constructed(r, c, t, IF Joins(c, r) THEN [id |-> id, handle |-> id, counter |-> 0,
                                                   members |-> [i \in DOMAIN c.ranks[r] |-> to_world(t, c.ranks[r][i])]]
                              ELSE NoTeam)
  /\ Proceed(r) /\ UNCHANGED <<size, prog, gexn, msgs, out, scratch>>

\* Move assignment to an inactive team; the registry follows the object.
team_move(r) ==
  /\ AtCall(r, {"move"}) /\ is_active(tms[r][CallOf(r).team]) /\ ~is_active(tms[r][CallOf(r).into])
  /\ LET c == CallOf(r)
     IN  /\ tms' = [tms EXCEPT ![r] = [@ EXCEPT ![c.into] = tms[r][c.team], ![c.team] = invalidate(@)]]
         /\ reg' = [reg EXCEPT ![r] = Put(@, tms[r][c.team].id, [kind |-> "team", slot |-> c.into])]
  /\ Proceed(r) /\ UNCHANGED <<size, prog, gexn, msgs, out, scratch>>

\* destroy: quiesce, give the scratch buffer back, leave the registry, invalidate.
DestroyTeam(r) ==
  /\ AtCall(r, {"destroy"}) /\ is_active(TeamOf(r)) /\ CallOf(r).team # "world"
  /\ quiesce(r, TeamOf(r), CallOf(r).eb)
  /\ UNCHANGED <<size, prog, tms, reg, msgs, out, scratch>>
destroy_returns(r) ==
  /\ at[r].pc \in DOMAIN prog /\ CallOf(r).op = "destroy" /\ is_active(TeamOf(r))
  /\ Quiesced(r, TeamOf(r), CallOf(r).eb)
  /\ scratch' = [scratch EXCEPT ![r] = @ - 1]
  /\ reg' = [reg EXCEPT ![r] = Drop(@, TeamOf(r).id)]
  /\ tms' = [tms EXCEPT ![r][CallOf(r).team] = invalidate(@)]
  /\ Proceed(r) /\ UNCHANGED <<size, prog, gexn, msgs, out>>

\* Faulty variant: waits in internal progress.
barrier_internal(r) ==
  /\ AtCall(r, {"barrier"}) /\ is_active(TeamOf(r)) /\ BlockIn(r, TeamOf(r), "internal")
  /\ UNCHANGED <<size, prog, tms, reg, msgs, out, scratch>>

\* barrier: blocks in user-level progress until every member has come.
barrier(r) ==
  /\ AtCall(r, {"barrier"}) /\ is_active(TeamOf(r)) /\ BlockIn(r, TeamOf(r), "user")
  /\ UNCHANGED <<size, prog, tms, reg, msgs, out, scratch>>
barrier_returns(r) ==
  /\ Blocked(r, {"barrier"}) /\ Released(r, TeamOf(r))
  /\ Proceed(r) /\ UNCHANGED <<size, prog, tms, reg, gexn, msgs, out, scratch>>

\* The user waits for what it has called, with user-level progress.
wait(r) ==
  /\ AtCall(r, {"wait"}) /\ \A i \in DOMAIN prog : out[r][i] # Owed
  /\ Proceed(r) /\ UNCHANGED <<size, prog, tms, reg, gexn, msgs, out, scratch>>

\* Telling the caller of call i: the completion of the operation.
Told(o, r, i, v) == [o EXCEPT ![r][i] = IF @ = Owed THEN v ELSE Twice]

TeamsNext(r) == \/ Skip(r) \/ team_split(r) \/ split_returns(r) \/ create_returns(r) \/ team_move(r)
                \/ DestroyTeam(r) \/ destroy_returns(r) \/ barrier(r) \/ barrier_returns(r) \/ wait(r)
===============================================================================
