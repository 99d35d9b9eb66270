-------------------------------- MODULE MCCcs --------------------------------
(***************************************************************************)
(* An executable and libraries: lapack and mkl with a build id (mkl with    *)
(* two executable segments), tools without, twin with the bytes of tools,   *)
(* and old, whose text is relocated when it is loaded.  The ranks load them *)
(* at different places and in a different order of addresses.               *)
(***************************************************************************)
EXTENDS Ccs

Text(num, at, size, text) == [num |-> num, at |-> at, size |-> size, text |-> text]
Image(build, relocated, upcxx, segs) ==
    [build |-> build, relocated |-> relocated, upcxx |-> upcxx, segs |-> segs]
MCCcsImages ==
    ("exe" :> Image(0, FALSE, TRUE, <<Text(1, 0, 8, 70)>>)) @@
    ("lapack" :> Image(30, FALSE, FALSE, <<Text(1, 0, 8, 71)>>)) @@
    ("mkl" :> Image(20, FALSE, FALSE, <<Text(1, 0, 4, 72), Text(3, 6, 4, 73)>>)) @@
    ("tools" :> Image(0, FALSE, FALSE, <<Text(1, 2, 6, 10)>>)) @@
    ("twin" :> Image(0, FALSE, FALSE, <<Text(1, 2, 6, 10)>>)) @@
    ("old" :> Image(0, TRUE, FALSE, <<Text(1, 0, 4, 400)>>))
MCCcsBase ==
    (0 :> ("exe" :> 100 @@ "lapack" :> 200 @@ "mkl" :> 220 @@ "tools" :> 240 @@ "twin" :> 260 @@ "old" :> 280)) @@
    (1 :> ("exe" :> 300 @@ "lapack" :> 180 @@ "mkl" :> 160 @@ "tools" :> 140 @@ "twin" :> 120 @@ "old" :> 100))

Fn(lib, seg, off) == [lib |-> lib, seg |-> seg, off |-> off]
MCCcsSentinel == Fn("exe", 1, 1)
InExe == Fn("exe", 1, 5)
InLapack == Fn("lapack", 1, 7)
InMkl == Fn("mkl", 2, 1)
InMkl1 == Fn("mkl", 1, 3)
InTools == Fn("tools", 1, 2)
InOld == Fn("old", 1, 2)

CallAll == [what |-> "verify_all"]
CallVerify(f) == [what |-> "verify", fn |-> f]
CallLoad(lib, who) == [what |-> "load", lib |-> lib, who |-> who]
CallEnforce(v) == [what |-> "enforce", value |-> v]
To(r, f) == [to |-> r, fn |-> f]
CcsJob(loaded, init, calls, enforce, main0, other0, main1) ==
    [loaded |-> loaded, init |-> init, calls |-> calls, enforce |-> enforce, opens |-> [r \in CcsRanks |-> {}],
     sends |-> (0 :> ("main" :> main0 @@ "other" :> other0)) @@ (1 :> ("main" :> main1 @@ "other" :> <<>>))]
Opening(job, libs, other1) == [job EXCEPT !.opens = [r \in CcsRanks |-> libs], !.sends[1]["other"] = other1]

MCCcsJobs == {
   \* libraries linked in, another one loaded and verified while a thread sends
   CcsJob(<<"exe", "mkl", "tools">>, 1, <<CallAll, CallLoad("lapack", {0, 1}), CallVerify(InLapack)>>, TRUE,
          <<To(1, InTools), To(1, InLapack)>>, <<To(1, InLapack), To(1, InMkl)>>, <<To(0, InMkl1)>>),
   \* nothing verified, more segments than the cache holds; then verified in order of hash
   CcsJob(<<"exe", "tools", "lapack", "mkl">>, 0, <<CallAll>>, FALSE,
          <<To(1, InLapack), To(1, InTools), To(1, InMkl), To(1, InLapack)>>, <<>>, <<To(1, InMkl), To(0, InExe)>>),
   \* a library that one rank loads late, verified in vain first
   CcsJob(<<"exe", "tools">>, 1, <<CallAll, CallLoad("mkl", {0}), CallVerify(InMkl), CallLoad("mkl", {1}),
                                 CallEnforce(FALSE), CallVerify(InMkl), CallVerify(InMkl)>>, TRUE,
          <<>>, <<To(1, InMkl), To(1, InMkl1)>>, <<To(0, InMkl1)>>),
   \* bytes that differ by rank, and a receiver without the library
   CcsJob(<<"exe", "old">>, 1, <<CallAll, CallLoad("lapack", {0}), CallEnforce(FALSE)>>, TRUE,
          <<To(0, InOld)>>, <<To(1, InLapack), To(0, InLapack)>>, <<To(1, InOld)>>),
   \* twins on both ranks
   CcsJob(<<"exe", "tools">>, 1, <<CallAll, CallLoad("twin", {0, 1}), CallLoad("lapack", {0, 1}), CallAll>>, TRUE,
          <<To(1, InTools), To(1, InLapack)>>, <<>>, <<To(0, InLapack)>>),
   \* threads of both ranks load a library and rebuild the map with it while the main ones
   \* verify all
   Opening(CcsJob(<<"exe", "tools">>, 0, <<CallAll, CallAll>>, FALSE,
                  <<>>, <<To(1, InLapack), To(1, InTools)>>, <<To(0, InLapack)>>), {"lapack"}, <<To(0, InLapack)>>)}

(* a twin of a verified library on one rank *)
MCCcsTwin == {
   CcsJob(<<"exe", "tools">>, 1, <<CallAll, CallLoad("twin", {0}), CallLoad("lapack", {0, 1}), CallAll>>, TRUE,
          <<To(1, InLapack)>>, <<>>, <<To(0, InLapack)>>)}
=============================================================================
