--------------------------- MODULE MCComparisons ---------------------------
(* One comparison of each app, two users and two threads, so that requests *)
(* overlap on a row, across apps and across users.                         *)
EXTENDS Comparisons, TLC

CONSTANTS c2, c3, u1, u2, r1, r2, r3, r4, t1, t2

OneM2 == {c2}
OneM3 == {c3}
TwoUsers == {u1, u2}
FourRuns == {r1, r2, r3, r4}
TwoThreads == {t1, t2}

Symmetry ==
    Permutations(Users) \cup Permutations(Runs) \cup Permutations(Threads)
=============================================================================
