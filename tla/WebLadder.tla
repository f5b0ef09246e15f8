----------------------------- MODULE WebLadder -----------------------------
(***************************************************************************)
(* The refinement mapping from WebUI to Ladder.  WebUI has its own, atomic *)
(* server: it keeps the promise about RTL versions that M1Service keeps,   *)
(* with the page's clicks as the requests.  RTL to GDS is not in WebUI.    *)
(***************************************************************************)
EXTENDS WebUI

\* A rung stands where the v2 run of its check stands.
stageOf == [v \in Versions |-> [k \in {"verify", "sim", "gds"} |->
               CASE k = "verify" -> run[v]["verification"]
                 [] k = "sim"    -> run[v]["simulation"]
                 [] k = "gds"    -> "none"]]

Abstract == INSTANCE Ladder WITH stage <- stageOf, certified <- {}

(* Whatever is clicked, on whichever stale copy of a version, and however  *)
(* often: the runs of the page's checks climb the ladder in order, each    *)
(* rung once (submit_verification, submit_simulation, as app.js calls      *)
(* them).                                                                  *)
ClicksClimbTheLadder == Abstract!LadderSpec
=============================================================================
