--------------------------- MODULE MCM4Proposals ---------------------------
(***************************************************************************)
(* The M4 script lab on a small instance: two proposals, two threads, and  *)
(* two run ids, so that v2 may also answer a repeated task with another    *)
(* run.                                                                    *)
(***************************************************************************)
EXTENDS M4Proposals

CONSTANTS p1, p2, r1, r2, t1, t2

MCProposals == {p1, p2}
MCRuns == {r1, r2}
TwoThreads == {t1, t2}
=============================================================================
