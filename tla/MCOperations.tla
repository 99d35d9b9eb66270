----------------------------- MODULE MCOperations -----------------------------
(* The calls that the runs of Operations choose from. *)
EXTENDS Operations

Req(ev, act, eager) == [ev |-> ev, act |-> act, eager |-> eager]
Src(act) == <<Req("source", act, act \in {"future", "promise"})>>
Rem      == {<<>>, <<Req("remote", "rpc", FALSE)>>}
Op(act, eager) == <<Req("operation", act, eager)>>
Lists(A, B, C) == {a \o b \o c : a \in A, b \in B, c \in C}

\* Requests for the operation event, alone or two together.
OpOnes == {Op("future", TRUE), Op("future", FALSE), Op("promise", TRUE), Op("lpc", FALSE)}
OpTwo  == Op("lpc", FALSE) \o Op("promise", FALSE)
SrcOnes == {<<>>, Src("future"), Src("promise"), Src("lpc")}

Call1(kind, vals, cxs) == [kind |-> kind, vals |-> vals, cxs |-> cxs, local |-> FALSE, byVal |-> FALSE,
                           immediate |-> FALSE, hs |-> "host", hd |-> "host", rs |-> "me", rd |-> "me",
                           mk |-> FALSE, dual |-> FALSE, here |-> <<>>, there |-> <<>>]

RputPlans ==
  {[Call1("rput", FALSE, c) EXCEPT !.local = l, !.byVal = v] :
     l \in BOOLEAN, v \in {FALSE}, c \in Lists(SrcOnes \cup {Src("buffered"), Src("blocking")}, Rem,
                                               OpOnes \cup {Op("blocking", FALSE)}) \cup
                                         Lists(SrcOnes, Rem \ {<<>>}, {<<>>})}
  \cup {[Call1("rput", FALSE, c) EXCEPT !.byVal = TRUE] : c \in Lists({<<>>}, Rem, OpOnes \cup {OpTwo})}

RgetPlans == {[Call1("rget", v, c) EXCEPT !.local = l] :
                l \in BOOLEAN, v \in BOOLEAN, c \in Lists({<<>>}, Rem, OpOnes \cup {OpTwo})}

\* Runs of a noncontiguous transfer: none, and two that differ in length; those that
\* do not match the other side or change the rank are refused by the assertions.
VisOps  == {"rput_irregular", "rget_irregular", "rput_regular", "rget_regular", "rput_strided", "rget_strided"}
Sides   == {<<>>, <<<<"far", 1>>, <<"far", 1>>>>, <<<<"far", 1>>, <<"near", 1>>>>, <<<<"far", 2>>>>}
VisLists(k) == IF k = "rput_irregular"
               THEN Lists(SrcOnes \cup {Src("buffered")}, Rem, OpOnes) \cup Lists({Src("lpc")}, Rem \ {<<>>}, {<<>>})
               ELSE Lists({<<>>, Src("promise")}, Rem, {Op("future", TRUE), Op("lpc", FALSE)})
VisPlans == UNION {{[Call1(k, FALSE, c) EXCEPT !.here = <<<<"me", 2>>>>, !.there = t] :
                      c \in VisLists(k), t \in Sides} : k \in VisOps}
            \cup {Call1(k, FALSE, Op("future", TRUE)) : k \in VisOps}

AtomicPlans == {Call1("atomic", v, c) : v \in BOOLEAN, c \in OpOnes \cup {OpTwo}}

\* <<entry, hs, rs, hd, rd, native, dual>>, as the user gives them.
Places ==
  {<<"copy_to", "host", r, "private", "me", FALSE, FALSE>> : r \in {"near", "far"}}   \* copy_as_rget
  \cup {<<"copy_from", "private", "me", "host", "far", FALSE, FALSE>>}                 \* copy_as_rput
  \cup {<<"copy", "host", "far", "host", r, FALSE, FALSE>> : r \in {"near", "other"}} \* as_rget or 3rdparty
  \cup {<<"copy", "host", "near", "host", "far", FALSE, FALSE>>}                       \* copy_as_rput
  \cup {<<"copy_to", "dev", "me", "private", "me", FALSE, FALSE>>,
        <<"copy", "dev", "me", "dev", "me", FALSE, TRUE>>}                             \* loopback
  \cup {<<"copy_from", h, "me", "dev", "far", k, FALSE>> : h \in {"private", "own", "mate"}, k \in BOOLEAN}
  \cup {<<"copy", "dev", "me", "dev", "far", k, FALSE>> : k \in BOOLEAN}
  \cup {<<"copy_to", "dev", "far", h, "me", k, FALSE>> : h \in {"private", "own"}, k \in BOOLEAN}
  \cup {<<"copy", "dev", "far", "dev", "me", k, FALSE>> : k \in BOOLEAN}

CopyTo(w, c) == [Call1(w[1], FALSE, c) EXCEPT !.hs = w[2], !.rs = w[3], !.hd = w[4], !.rd = w[5],
                                              !.mk = w[6], !.dual = w[7]]
CopyLists == Lists(SrcOnes, Rem, OpOnes) \cup Lists(SrcOnes, Rem \ {<<>>}, {<<>>})

\* Reference kinds, out of a device of this rank, source but no operation completion:
\* the run copy_source_event is about these calls, the others leave them out.
Staged(p)    == p.kind = "copy" /\ ~p.mk /\ p.hs = "dev" /\ p.rs = "me" /\ p.rd # "me"
Orphaning(p) == Staged(p) /\ Names(p, "source") /\ ~Names(p, "operation")
CopyPlans == {CopyTo(w, c) : w \in Places, c \in CopyLists}

RpcPlans == {[Call1("rpc", v, c) EXCEPT !.immediate = i] :
               v \in BOOLEAN, i \in BOOLEAN, c \in Lists(SrcOnes, {<<>>}, OpOnes \cup {OpTwo})}
            \cup {[Call1("rpc_ff", FALSE, c) EXCEPT !.immediate = i] : i \in BOOLEAN, c \in SrcOnes}

AllPlans == {p \in RputPlans \cup RgetPlans \cup VisPlans \cup AtomicPlans \cup CopyPlans \cup RpcPlans : ~Orphaning(p)}

\* Beside the operation under test, an atomic that shares the promise and the persona.
Beside == {Call1("atomic", FALSE, Op("promise", FALSE))}

MCPlans       == [o \in Ops |-> IF o = 1 THEN AllPlans ELSE Beside]
MCPlansStaged == [o \in Ops |-> {p \in CopyPlans : Staged(p)}]
===============================================================================
