---------------------------- MODULE MCFutureCore ----------------------------
(***************************************************************************)
(* Sizes of programs: five headers in chains, for futures returned by       *)
(* callbacks that wait for futures returned by callbacks; four with         *)
(* when_all of two, or with copies of futures; three with both, and with    *)
(* promises of more than one dependency.                                    *)
(***************************************************************************)
EXTENDS FutureCore

MCSizes == {[headers |-> 5, refs |-> 1, countdown |-> 1, args |-> 1],
            [headers |-> 4, refs |-> 1, countdown |-> 1, args |-> 2],
            [headers |-> 4, refs |-> 2, countdown |-> 1, args |-> 1],
            [headers |-> 3, refs |-> 2, countdown |-> 2, args |-> 2]}
=============================================================================
