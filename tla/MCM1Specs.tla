----------------------------- MODULE MCM1Specs -----------------------------
(***************************************************************************)
(* The specification half of M1 on a small instance: one course exercise   *)
(* and one design without a teaching oracle, two requests at a time, two   *)
(* ids an uploaded oracle may be given, and a restart at any point.        *)
(***************************************************************************)
EXTENDS M1Specs

CONSTANTS counter, custom, t1, t2, o1, o2

MCSpecs == {counter, custom}
MCTaught == {counter}
MCSpecThreads == {t1, t2}
MCOracles == {o1, o2}
=============================================================================
