-------------------------- MODULE MCProgressEngine --------------------------
\* Two threads that share one more persona, whose user code uses one promise.
EXTENDS ProgressEngine, TLC

CONSTANTS t1, t2, m, x, i1, i2

HomeShared == x :> m
HomeNone   == <<>>

\* Threads and lpcs are interchangeable.
Symmetry == Permutations(Threads) \cup Permutations(Items)
=============================================================================
