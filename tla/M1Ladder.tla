------------------------------ MODULE M1Ladder ------------------------------
(***************************************************************************)
(* The refinement mapping from M1Service to Ladder: a rung stands where    *)
(* the one run of its task stands, and a version is certified when a row   *)
(* of m1_evidence is about it.                                             *)
(***************************************************************************)
EXTENDS M1Service

Standing(run) ==
    IF run.status = "active" THEN "active"
    ELSE IF run.status # "succeeded" THEN "failed"
    ELSE IF run.kind = "gds" /\ ~run.complete THEN "incomplete"
    ELSE "succeeded"

stageOf ==
    [v \in Versions |-> [k \in Kinds |->
        IF RunFor(k, v) = {} THEN "none"
        ELSE Standing(runs[CHOOSE r \in RunFor(k, v) : TRUE])]]

certifiedBy == {runs[r].ver : r \in evidenceDb}

Abstract == INSTANCE Ladder WITH stage <- stageOf, certified <- certifiedBy

(* M1Service implements Ladder: through stale reads, lost replies, retries *)
(* and restarts, every version climbs each rung at most once, in order,    *)
(* and evidence reaches the database only for a completed climb.           *)
ClimbsTheLadder == Abstract!LadderSpec
=============================================================================
