-------------------------------- MODULE BcastAm --------------------------------
(***************************************************************************)
(* bcast_am_master (runtime.hpp): a command that fits in a message is      *)
(* broadcast by the eager protocol, a longer one by rendezvous.  The two   *)
(* protocols share the tree, the counters of runs and nothing else; the    *)
(* variables of the one that is not used keep their initial values.        *)
(***************************************************************************)
EXTENDS BcastRdzv

CONSTANT Split     \* how the eager protocol splits an interval: Eager, in the code

\* A rank keeps at least half of its interval, else ranks at the end would be left out.
ASSUME BcastAmAssumption ==
  /\ Split \in [num : Nat, den : Nat]
  /\ Split.num < Split.den /\ Split.den <= 2 * Split.num

VARIABLES
  protocol,                                              \* the one in use
  eNet, eHandler, eForward, eRpc, eUb, eRefs, eBlock     \* those of BcastEager

Direct == INSTANCE BcastEager WITH
            net <- eNet, handler <- eHandler, fwd <- eForward, rpc <- eRpc,
            ub <- eUb, refs <- eRefs, block <- eBlock

eagerVars == <<eNet, eHandler, eForward, eRpc, eUb, eRefs, eBlock>>
rdzvVars  == <<m, net, pc, ub, owner, src, loaded, refs, buffer, drops, frees, twice>>
amVars    == <<protocol, eagerVars, rdzvVars, ran>>

AmInit == protocol \in {"eager", "rdzv"} /\ Init /\ Direct!Init

\* One step of the protocol in use.
ByEager(A) == protocol = "eager" /\ A /\ UNCHANGED <<protocol, rdzvVars>>
ByRdzv(A)  == protocol = "rdzv" /\ A /\ UNCHANGED <<protocol, eagerVars>>

AmNext == ByEager(Direct!Next) \/ ByRdzv(Next)

\* Every rank polls: messages arrive, GETs complete and lpcs run.
AmSpec ==
  /\ AmInit /\ [][AmNext]_amVars
  /\ WF_amVars(ByEager(\E p \in eNet : Direct!Receive(p)))
  /\ WF_amVars(ByRdzv(\E p \in net : Receive(p)))
  /\ \A r \in Ranks : WF_amVars(ByEager(Direct!Step(r))) /\ WF_amVars(ByRdzv(Step(r)))

-----------------------------------------------------------------------------
\* Every variable of both protocols has its type.
AmTypeOK == protocol \in {"eager", "rdzv"} /\ TypeOK /\ Direct!TypeOK

\* The block that two lpcs share lives as long as one of them will read it.
BlockLife == Direct!BlockLife

\* When all is quiet in a protocol every rank but the root has run the rpc: the
\* intervals the ranks hand on leave nobody out.
Quiet == IF protocol = "eager" THEN Direct!Terminated ELSE Terminated
NobodyMissed == Quiet => \A r \in Ranks \ {Root} : ran[r] = 1

\* The messages of a broadcast cover its team, and the memory they share is
\* never read after it was freed, freed twice or kept (am_bcast_master_eager,
\* bcast_am_master_rdzv).
BroadcastMemory ==
  AmTypeOK /\ BlockLife /\ NoUseAfterFree /\ BuffersReclaimed /\ NobodyMissed

\* The inductive invariant: that of the protocol in use; the other one has not moved.
AmInv ==
  /\ protocol \in {"eager", "rdzv"}
  /\ protocol = "eager" => Direct!EagerInv /\ TypeOK /\ NoUseAfterFree /\ pc[Root] = "count"
  /\ protocol = "rdzv" => RdzvInv /\ Direct!TypeOK /\ BlockLife

\* Every other rank runs the rpc and no rendezvous buffer stays allocated.
EveryoneRuns ==
  <>[](/\ \A r \in Ranks \ {Root} : ran[r] = 1
       /\ protocol = "rdzv" => \A r \in Ranks : buffer[r] # "live")

-----------------------------------------------------------------------------
(* The nodes of the instance that is model-checked.  Rank 4 broadcasts.    *)
(* Rank 1, on its node, forwards to 2 from the root's buffer; 2 copies it  *)
(* and serves 3, on its own node; 5 copies it and serves 0, back on the    *)
(* root's node.                                                            *)
TwoNodes == [r \in 0 .. N - 1 |-> IF r \in {0, 1, 4} THEN 0 ELSE 1]
===============================================================================
