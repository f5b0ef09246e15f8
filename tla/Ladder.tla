------------------------------- MODULE Ladder -------------------------------
(***************************************************************************)
(* What M1 promises about an RTL version, with no threads, rows, requests  *)
(* or run ids: three rungs - verification, simulation, RTL to GDS - each   *)
(* climbed at most once and only after the rungs below it succeeded, and a *)
(* GDS certificate only for a version whose last rung was completed.       *)
(* M1Ladder shows that M1Service implements this.                          *)
(***************************************************************************)
CONSTANTS Versions

Rungs == {"verify", "sim", "gds"}
Below(k) == CASE k = "verify" -> {}
              [] k = "sim" -> {"verify"}
              [] k = "gds" -> {"verify", "sim"}

(* How a rung can end; only RTL to GDS can succeed and still lack outputs. *)
Ends(k) == IF k = "gds" THEN {"failed", "incomplete", "succeeded"}
                        ELSE {"failed", "succeeded"}

VARIABLES
    stage,       \* how far each rung of each version has come
    certified    \* the versions with GDS evidence

ladderVars == <<stage, certified>>

LadderInit ==
    /\ stage = [v \in Versions |-> [k \in Rungs |-> "none"]]
    /\ certified = {}

Begin(v, k) ==
    /\ stage[v][k] = "none"
    /\ \A j \in Below(k) : stage[v][j] = "succeeded"
    /\ stage' = [stage EXCEPT ![v][k] = "active"]
    /\ UNCHANGED certified

End(v, k) ==
    /\ stage[v][k] = "active"
    /\ \E result \in Ends(k) : stage' = [stage EXCEPT ![v][k] = result]
    /\ UNCHANGED certified

Certify(v) ==
    /\ stage[v]["gds"] = "succeeded"
    /\ certified' = certified \cup {v}
    /\ UNCHANGED stage

LadderNext ==
    \E v \in Versions : \/ \E k \in Rungs : Begin(v, k) \/ End(v, k)
                        \/ Certify(v)

LadderSpec == LadderInit /\ [][LadderNext]_ladderVars
=============================================================================
