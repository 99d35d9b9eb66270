----------------------------- MODULE MCServices -----------------------------
(***************************************************************************)
(* Instances of the services: messages to write and read, requests to the   *)
(* allocators, jobs of two and three ranks, the mappings of two processes   *)
(* of one node, programs that open and close devices, and the libraries of  *)
(* MCCcs.                                                                   *)
(***************************************************************************)
EXTENDS Services, MCCcs

(* Wire format: types, one value of each for a count, and messages whose    *)
(* first part fills the first hunk to several depths                        *)
Triv(n) == [k |-> "triv", size |-> n, align |-> n]
Fields(ts) == [k |-> "fields", ts |-> ts]
TEmpty == [k |-> "empty"]
Vector(t) == [k |-> "seq", t |-> t, contiguous |-> TRUE, policies |-> <<TEmpty>>]
Hashed(t) == [k |-> "seq", t |-> t, contiguous |-> FALSE, policies |-> <<TEmpty, TEmpty, TEmpty>>]
FList(t) == [k |-> "flist", t |-> t, policies |-> <<TEmpty>>]
ViewOf(t) == [k |-> "view", t |-> t]
ArrayOf(t, n, c) == [k |-> "array", t |-> t, n |-> n, c |-> c]
TByte == Triv(1)
TWord == Triv(8)
Odd == Fields(<<TByte, TWord, TByte>>)
Padded == Fields(<<TWord, TByte>>)
User == [k |-> "user", ts |-> <<TByte, TWord>>]
Mixed == [k |-> "tuple", ts |-> <<Vector(TByte), TWord, TEmpty>>]
ElementTypes == {TByte, TWord, Odd, Padded, [k |-> "tuple", ts |-> <<TWord, TByte>>]}
RECURSIVE Example(_, _)
Example(T, n) == CASE IsTrivial(T) -> n
   [] T.k = "empty" -> <<>>
   [] T.k \in Compound -> [i \in DOMAIN T.ts |-> Example(T.ts[i], n + i)]
   [] T.k = "array" -> [i \in 1..T.n |-> Example(T.t, i)]
   [] OTHER -> [i \in 1..n |-> Example(T.t, IF T.t.k \in {"seq","flist","view"} THEN i % 3 ELSE i)]
ElementCounts == {0, 1, 5}
MessageTypes == {Vector(t) : t \in ElementTypes \cup {User, Mixed, ArrayOf(Padded, 2, FALSE)}} \cup {Hashed(t) : t \in {TWord, Odd}}
   \cup {FList(t) : t \in {TWord, Padded, User}} \cup {ViewOf(t) : t \in {TWord, Odd, User, Vector(TWord), ViewOf(TByte), ViewOf(User), Mixed}}
   \cup {ArrayOf(Odd, 3, TRUE), ArrayOf(TWord, 3, TRUE), ArrayOf(User, 2, FALSE), Mixed, User}
Fill(n) == <<ArrayOf(TByte, n, FALSE), 9>>
LastPart == {<<TWord, 5>>, <<FList(TByte), <<1,2>>>>}
MCSerMessages ==
  {<<Fill(f), <<T, Example(T, n)>>, e>> : f \in {3, 440, 470, 485}, T \in MessageTypes, n \in ElementCounts, e \in LastPart}
  \cup {<<Fill(470), Fill(n), e>> : n \in {480, 8160, 9000}, e \in LastPart}   \* hunks filled to the last bytes

(* Segment allocator: [size, alignment] *)
MCSegRequests == {<<0, 1>>, <<100, 1024>>, <<1000, 2048>>, <<3000, 1024>>, <<8192, 1>>}

(* Shared heap *)
MCHeapTypes == {[size |-> 4, align |-> 4, trivial |-> TRUE], [size |-> 24, align |-> 32, trivial |-> FALSE]}

(* Jobs *)
Msg(to, bound, ub, size, how, per, level) ==
  [to |-> to, bound |-> bound, ub |-> ub, size |-> size, how |-> how, per |-> per, level |-> level, immediate |-> FALSE]
Immediate(m) == [m EXCEPT !.immediate = TRUE]
Static(to, n) == Msg(to, n, n, n, "master", "master", "user")
Dynamic(to, ub, how) == Msg(to, DynamicBound, ub, ub - 50, how, "aux", "user")
Unbounded(to, n, how, level) == Msg(to, NoBound, 0, n, how, "aux", level)
Program(ms, tail) == <<<<"init">>>> \o [i \in DOMAIN ms |-> <<"send", ms[i]>>] \o tail
Waits == <<<<"settle", 10>>, <<"finalize">>>>
Abrupt == <<<<"finalize">>>>
Rebuild(m) == <<<<"settle", 2>>, <<"destroy_heap">>, <<"restore_heap">>, <<"send", m>>, <<"settle", 10>>, <<"finalize">>>>
Job(nbhd, npam, upc, env, prog) == [nbhd |-> nbhd, npam |-> npam, upc |-> upc, env |-> env, prog |-> prog]
Pair == (0 :> {0, 1}) @@ (1 :> {0, 1})
Apart == (0 :> {0}) @@ (1 :> {1})
Mixed3 == (0 :> {0, 1}) @@ (1 :> {0, 1}) @@ (2 :> {2})
Split3 == (0 :> {0, 2}) @@ (1 :> {1}) @@ (2 :> {0, 2})
Both(a, b) == (0 :> a) @@ (1 :> b)
MCJobs ==
  {Job(nb, np, FALSE, <<0, 0>>, Both(Program(<<m, n>>, Waits), Program(<<>>, Waits))) :
     nb \in {Pair, Apart}, np \in {"always", "local"},
     m \in {Immediate(Static(1, 100)), Static(1, 300), Static(1, 2500), Dynamic(1, 2500, "master")},
     n \in {Unbounded(1, 100, "persona", "user"), Immediate(Unbounded(1, 700, "master", "internal")),
            Unbounded(1, 2500, "persona", "user"), Dynamic(1, 400, "deferred"), Dynamic(1, 800, "deferred"), Dynamic(1, 9000, "deferred"),
            Immediate(Dynamic(1, 800, "master"))}}
  \cup {Job(nb, "local", FALSE, <<100, 100>>, Both(Program(<<Dynamic(1, 400, "persona")>>, tail), Program(<<Unbounded(0, 2500, "deferred", "user")>>, tail))) :
     nb \in {Pair, Apart}, tail \in {Waits, Abrupt, <<<<"init">>, <<"finalize">>>> \o Waits}}
  \cup {Job(Pair, "always", u, <<9999, 500>>, Both(Program(<<Dynamic(1, 2500, "master")>>, Rebuild(Dynamic(1, 800, "master"))),
                                             Program(<<>>, Rebuild(Static(0, 2000))))) : u \in BOOLEAN}
  \cup {Job(nb, "local", FALSE, <<0, 0>>, (0 :> Program(<<Dynamic(2, 2500, "master")>>, Waits)) @@ (1 :> Program(<<>>, Waits)) @@ (2 :> Program(<<Static(1, 2500)>>, Waits))) : nb \in {Mixed3, Split3}}

(* Global pointers: ranks 1 and 2 share a node; rank 1 maps the segment of  *)
(* rank 2 right below its own, rank 2 the other way round                   *)
MCGpPeers == [me \in 0 .. 2 |-> IF me = 0 THEN {0} ELSE {1, 2}]
MCGpView ==
  (0 :> (0 :> 160)) @@ (1 :> ((1 :> 48) @@ (2 :> 32))) @@ (2 :> ((1 :> 24) @@ (2 :> 200)))
MCGpDevices ==
  {[rank |-> 0, heap |-> 1, kind |-> "cuda_device", base |-> 160, size |-> 8],
   [rank |-> 1, heap |-> 2, kind |-> "hip_device", base |-> 8, size |-> 8]}
MCGpAddresses == {0, 8, 24, 28, 32, 36, 48, 52, 60, 64, 160, 176, 200, 212, 252}

(* Devices *)
DvBoth == [r \in DvRanks |-> 0]
DvOne  == [r \in DvRanks |-> IF r = 0 THEN 0 ELSE InvalidId]
DvAsks == [r \in DvRanks |-> IF r = 0 THEN 2 ELSE 5]
DvCall(w, k, from, to) == [what |-> w, kind |-> k, eb |-> "user", from |-> from, to |-> to,
                           id |-> DvBoth, size |-> DvAsks, given |-> FALSE]
DvOpen(k, n) == DvCall("device", k, 0, n)
DvSeg(d, a) == DvCall("allocator", "-", d, a)
DvGpu(k, a) == DvCall("gpu", k, 0, a)
DvMove(from, to) == DvCall("move", "-", from, to)
DvMoveA(from, to) == DvCall("move allocator", "-", from, to)
DvClose(d) == DvCall("destroy", "-", d, 0)
DvCloseA(a) == DvCall("destroy allocator", "-", a, 0)
DvDrop(a) == DvCall("drop", "-", a, 0)
Only(c) == [c EXCEPT !.id = DvOne]
Early(c) == [c EXCEPT !.eb = "none"]
Given(c) == [c EXCEPT !.given = TRUE]
MCDvPrograms == {
   \* two devices of one native kind, opened again after a close
   <<DvOpen("cuda", 1), DvSeg(1, 1), DvOpen("cuda", 2), DvClose(1), DvDrop(1), DvClose(2)>>,
   <<DvOpen("cuda", 1), DvClose(1), DvOpen("cuda", 1), DvSeg(1, 1), DvMoveA(1, 2), DvClose(1)>>,
   \* reference kind: the index is used again
   <<DvOpen("hip", 1), DvSeg(1, 1), DvMove(1, 2), DvMoveA(1, 2), Early(DvCloseA(2)), DvOpen("hip", 1), Given(DvSeg(1, 1)), DvClose(1)>>,
   \* a second try on the same device after a failure
   <<DvOpen("cuda", 1), DvSeg(1, 1), DvSeg(1, 2), DvClose(1)>>,
   \* only rank 0 has a device
   <<Only(DvGpu("cuda", 1)), DvMoveA(1, 2), DvCloseA(2), DvDrop(2), DvGpu("hip", 2), DvCloseA(2)>>,
   <<DvGpu("hip", 1), DvGpu("hip", 2), DvCloseA(1), DvCloseA(2), DvDrop(1), Only(DvGpu("hip", 1)), DvCloseA(1)>>}
=============================================================================
