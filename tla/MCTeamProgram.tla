----------------------------- MODULE MCTeamProgram -----------------------------
EXTENDS TeamProgram
W == <<0, 1, 2>>
Job(n, calls) == [ranks |-> n, calls |-> calls]
Ten == [r \in 0..3 |-> 10^r]
Wait == [op |-> "wait"]
Split == [op |-> "split", team |-> "world", into |-> "sub", colour |-> [r \in 0..2 |-> IF r = 1 THEN -1 ELSE 4], key |-> [r \in 0..2 |-> 2 - r]]
Create == [op |-> "create", team |-> "world", into |-> "sub", ranks |-> [r \in 0..2 |-> IF r = 0 THEN <<>> ELSE <<2, 1>>]]
Destroy(s, eb) == [op |-> "destroy", team |-> s, eb |-> eb]
Barrier == [op |-> "barrier", team |-> "world"]
Coll(op, tm, who, root) == [op |-> op, team |-> tm, who |-> who, root |-> root, val |-> Ten, fn |-> "add", ty |-> "i64"]
Typed(op, fn, ty, vals) == [op |-> op, team |-> "world", who |-> W, root |-> 1, val |-> vals, fn |-> fn, ty |-> ty]
Bits3 == [r \in 0..2 |-> IF r = 1 THEN 0 ELSE 1]
Ones == [r \in 0..2 |-> 1]
Dist(s) == [op |-> "dist_object", team |-> "world", slot |-> s, val |-> Ten]
Fetch(s, n) == [op |-> "fetch", slot |-> s, ahead |-> n, expect |-> [r \in 0..2 |-> 10^((r + n) % 3)]]
AdCreate(tm, d) == [op |-> "ad_create", team |-> tm, slot |-> "x", debug |-> d, floating |-> FALSE,
                ops |-> {"load", "store", "inc", "fetch_inc", "fetch_add", "compare_exchange", "sub", "mul", "fetch_min", "max", "dec"}]
Atomic(s, m) == [op |-> "atomic", slot |-> s, target |-> 1, meth |-> m, v1 |-> [r \in 0..2 |-> r], v2 |-> [r \in 0..2 |-> r + 5]]
Meths(a, b, c) == [r \in 0..2 |-> CASE r = 0 -> a [] r = 1 -> b [] r = 2 -> c]
W4 == <<0, 1, 2, 3>>
MCPrograms == {
  Job(4, <<Coll("reduce_all_nontrivial", "world", W4, 0), Coll("reduce_one_nontrivial", "world", W4, 3), Wait>>),
  Job(4, <<Coll("broadcast_nontrivial", "world", W4, 3), Coll("reduce_one_nontrivial", "world", W4, 2), Wait>>),
  Job(3, <<Split, Coll("reduce_all_nontrivial", "sub", <<2, 0>>, 0), Coll("broadcast_nontrivial", "world", W, 2), Wait, Destroy("sub", "user")>>),
  Job(3, <<Create, [op |-> "move", team |-> "sub", into |-> "other"], Coll("reduce_one_nontrivial", "other", <<2, 1>>, 1),
    Coll("reduce_all_nontrivial", "world", W, 0), Wait, Destroy("other", "internal")>>),
  Job(3, <<Coll("reduce_one_nontrivial", "world", W, 2), Coll("reduce_all", "world", W, 0), Coll("broadcast", "world", W, 1), Wait>>),
  Job(3, <<Split, Coll("barrier_async", "sub", <<2, 0>>, 0), Coll("reduce_one", "world", W, 2), Wait, Barrier, Destroy("sub", "none")>>),
  Job(3, <<Typed("reduce_all_bulk", "add", "bool", Bits3), Typed("reduce_all", "max", "flt", Ten), Typed("reduce_one_bulk", "bit_xor", "i8", Ones), Wait>>),
  Job(3, <<Typed("reduce_all", "mul", "bool", Bits3), Typed("reduce_one", "min", "u64", Ten), Typed("broadcast_bulk", "add", "i64", Ten), Wait>>),
  Job(3, <<Typed("reduce_all", "bit_or", "u32", Bits3), Typed("reduce_all_bulk", "bit_and", "i32", Bits3), Typed("reduce_one_bulk", "mul", "dbl", Ten), Wait>>),
  Job(3, <<Dist("a"), Fetch("a", 1), [op |-> "dist_move", slot |-> "a", into |-> "b"], Wait, Barrier, [op |-> "dist_destroy", slot |-> "b"]>>),
  Job(3, <<[op |-> "inactive", slot |-> "a", val |-> Ten], [op |-> "activate", team |-> "world", slot |-> "a"], Coll("broadcast_nontrivial", "world", W, 0),
    [op |-> "dist_destroy", slot |-> "a"], Wait>>),
  Job(3, <<AdCreate("world", FALSE), Barrier, Atomic("x", Meths("compare_exchange", "fetch_add", "fetch_min")), Wait, [op |-> "ad_destroy", slot |-> "x", eb |-> "internal"]>>),
  Job(3, <<AdCreate("world", TRUE), [op |-> "ad_move", slot |-> "x", into |-> "y"], Barrier, Atomic("y", Meths("fetch_inc", "mul", "max")), Wait,
    Barrier, [op |-> "ad_destroy", slot |-> "y", eb |-> "none"]>>),
  Job(3, <<AdCreate("world", FALSE), Barrier, Atomic("x", Meths("load", "store", "sub")), Wait, [op |-> "ad_destroy", slot |-> "x", eb |-> "user"]>>)
}
===============================================================================
