--------------------------- MODULE M1LadderProofs ---------------------------
(***************************************************************************)
(* M1Service implements Ladder.  A step that admits a new run begins a     *)
(* rung, the end of a run ends it, the row written by record_evidence      *)
(* certifies; every other step, restarts included, is a stutter.           *)
(***************************************************************************)
EXTENDS M1Ladder, M1ServiceProofs

(* A task has one run, so a rung stands where any run of its task stands.  *)
LEMMA StageIs ==
    ASSUME OneRunPerTask, NEW k \in Kinds, NEW v \in Versions,
           NEW r \in RunFor(k, v)
    PROVE  stageOf[v][k] = Standing(runs[r])
<1>1. \A q \in RunFor(k, v) : q = r
  BY DEF OneRunPerTask, RunFor
<1>2. (CHOOSE q \in RunFor(k, v) : TRUE) = r
  BY <1>1
<1> QED
  BY <1>2 DEF stageOf

LEMMA StageNone ==
    ASSUME NEW k \in Kinds, NEW v \in Versions, RunFor(k, v) = {}
    PROVE  stageOf[v][k] = "none"
BY DEF stageOf

(* Succeeded is what the ladder calls so, below RTL to GDS.                *)
LEMMA SucceededStage ==
    ASSUME OneRunPerTask, NEW k \in Checks, NEW v \in Versions, Succeeded(k, v)
    PROVE  stageOf[v][k] = "succeeded"
BY StageIs DEF Succeeded, Standing, RunFor, Checks, Kinds

(* The stages after a step in which only run r, of task (k, v), changes.   *)
LEMMA StageExcept ==
    ASSUME NEW k \in Kinds, NEW v \in Versions, NEW r \in Runs,
           RunFor(k, v)' = {r}, RunFor(k, v) \subseteq {r},
           \A q \in Runs \ {r} : runs'[q] = runs[q],
           runs[r] # None => r \in RunFor(k, v)
    PROVE  stageOf' = [stageOf EXCEPT ![v] =
                          [stageOf[v] EXCEPT ![k] = Standing(runs'[r])]]
<1> DEFINE At(j, w) == IF RunFor(j, w) = {} THEN "none"
                       ELSE Standing(runs[CHOOSE q \in RunFor(j, w) : TRUE])
<1>1. stageOf = [w \in Versions |-> [j \in Kinds |-> At(j, w)]]
  BY DEF stageOf
<1>2. stageOf' = [w \in Versions |-> [j \in Kinds |-> At(j, w)']]
  BY DEF stageOf
<1>3. At(k, v)' = Standing(runs'[r])
  BY DEF Standing
<1>4. ASSUME NEW w \in Versions, NEW j \in Kinds, w # v \/ j # k
      PROVE  At(j, w)' = At(j, w)
  <2>1. RunFor(j, w)' = RunFor(j, w) /\ r \notin RunFor(j, w)
    BY <1>4 DEF RunFor
  <2>2. CASE RunFor(j, w) = {}
    BY <2>1, <2>2
  <2>3. CASE RunFor(j, w) # {}
    <3>1. PICK q \in RunFor(j, w) : q = CHOOSE p \in RunFor(j, w) : TRUE
      BY <2>3
    <3>2. runs'[q] = runs[q]
      BY <2>1 DEF RunFor
    <3>3. At(j, w) = Standing(runs[q])
      BY <2>3, <3>1
    <3>4. At(j, w)' = Standing(runs'[q])
      BY <2>1, <2>3, <3>1 DEF Standing
    <3> QED
      BY <3>2, <3>3, <3>4
  <2> QED
    BY <2>2, <2>3
<1> HIDE DEF At
<1> QED
  BY <1>1, <1>2, <1>3, <1>4

-----------------------------------------------------------------------------
LEMMA LadderInitially == Init => Abstract!LadderInit
BY DEF Init, stageOf, certifiedBy, RunFor, Abstract!LadderInit,
       Abstract!Rungs, Kinds, Checks

(* Admitting a new run of a task begins its rung.                          *)
LEMMA AdmitBegins ==
    ASSUME ServiceInv, NEW t \in Threads, NEW k \in Kinds, NEW v \in Versions,
           NEW r \in Runs, req[t] = [at |-> "submit", kind |-> k, ver |-> v],
           version[v] # None, Admit(k, v, r), runs[r] = None,
           certifiedBy' = certifiedBy
    PROVE  Abstract!Begin(v, k)
<1> USE DEF ServiceInv
<1>1. /\ RunFor(k, v) = {} /\ RunFor(k, v)' = {r}
      /\ \A q \in Runs \ {r} : runs'[q] = runs[q]
      /\ Standing(runs'[r]) = "active"
  BY AdmitFacts DEF RunFor, Standing
<1>2. stageOf[v][k] = "none"
  BY <1>1, StageNone
<1>3. stageOf' = [stageOf EXCEPT ![v] = [stageOf[v] EXCEPT ![k] = "active"]]
  BY <1>1, StageExcept
<1>4. \A j \in Abstract!Below(k) : stageOf[v][j] = "succeeded"
  <2>1. k \in {"sim", "gds"} => stageOf[v]["verify"] = "succeeded"
    BY SucceededStage DEF Sound, Checks
  <2>2. k = "gds" => stageOf[v]["sim"] = "succeeded"
    BY SucceededStage DEF Sound, Checks
  <2> QED
    BY <2>1, <2>2 DEF Abstract!Below, Kinds, Checks
<1> QED
  BY <1>2, <1>3, <1>4 DEF Abstract!Begin

(* The end of a run ends its rung.                                         *)
LEMMA RunEndEnds ==
    ASSUME ServiceInv, TypeOK', NEW r \in Runs, NEW status \in Endings,
           RunEnds(r, status)
    PROVE  \E v \in Versions, k \in Kinds : Abstract!End(v, k)
<1> USE ServiceAssumption DEF ServiceInv
<1>1. PICK v \in Versions, k \in Kinds : runs[r].ver = v /\ runs[r].kind = k
  BY RunEndsFacts DEF TypeOK, Run
<1>2. /\ r \in RunFor(k, v) /\ runs[r].status = "active"
      /\ \A q \in Runs \ {r} : runs'[q] = runs[q]
      /\ runs'[r] # None /\ runs'[r].kind = k /\ runs'[r].ver = v
  BY <1>1, RunEndsFacts DEF RunFor
<1>3. \A q \in RunFor(k, v) : q = r
  BY <1>2 DEF OneRunPerTask, RunFor
<1>4. RunFor(k, v) \subseteq {r} /\ RunFor(k, v)' = {r}
  BY <1>2, <1>3 DEF RunFor
<1>5. stageOf[v][k] = "active"
  BY <1>2, StageIs DEF Standing
<1>6. stageOf' = [stageOf EXCEPT ![v] =
                     [stageOf[v] EXCEPT ![k] = Standing(runs'[r])]]
  BY <1>2, <1>4, StageExcept
<1>7. Standing(runs'[r]) \in Abstract!Ends(k)
  <2>1. runs'[r].status # "active" /\ (runs'[r].complete \in BOOLEAN)
    BY <1>2 DEF RunEnds, TypeOK, Run, RunStatus, Observed
  <2> QED
    BY <1>2, <2>1 DEF Standing, Abstract!Ends
<1>8. certifiedBy' = certifiedBy
  <2>1. evidenceDb' = evidenceDb /\ evidenceDb \subseteq Runs
    BY DEF RunEnds, gdsVars, TypeOK
  <2>2. \A q \in evidenceDb : runs'[q].ver = runs[q].ver
    BY <1>1, <1>2, <2>1
  <2> QED
    BY <2>1, <2>2 DEF certifiedBy
<1> QED
  BY <1>5, <1>6, <1>7, <1>8 DEF Abstract!End

(* Writing an evidence row certifies the version of its run.               *)
LEMMA SaveCertifies ==
    ASSUME ServiceInv, NEW t \in Threads, EvidenceSave(t)
    PROVE  \E v \in Versions : Abstract!Certify(v)
<1> USE DEF ServiceInv
<1>1. PICK r \in Runs : req[t].run = r
  BY DEF EvidenceSave, TypeOK, Request, Writing, Idle
<1>2. /\ runs[r] # None /\ runs[r].kind = "gds"
      /\ runs[r].status = "succeeded" /\ runs[r].complete
  BY <1>1 DEF EvidenceSave, Sound
<1>3. PICK v \in Versions : runs[r].ver = v
  BY <1>2 DEF TypeOK, Run
<1>4. stageOf[v]["gds"] = "succeeded"
  BY <1>2, <1>3, StageIs DEF RunFor, Standing, Kinds
<1>5. runs' = runs /\ evidenceDb' = evidenceDb \cup {r}
  BY <1>1 DEF EvidenceSave
<1>6. stageOf' = stageOf /\ certifiedBy' = certifiedBy \cup {v}
  BY <1>3, <1>5 DEF stageOf, certifiedBy, RunFor
<1> QED
  BY <1>4, <1>6 DEF Abstract!Certify

LEMMA ClimbStep ==
    ServiceInv /\ TypeOK' /\ [Next]_vars
        => [Abstract!LadderNext]_(Abstract!ladderVars)
<1> SUFFICES ASSUME ServiceInv, TypeOK', [Next]_vars
             PROVE  Abstract!LadderNext \/ UNCHANGED <<stageOf, certifiedBy>>
  BY DEF Abstract!ladderVars
<1>1. CASE runs' = runs /\ evidenceDb' = evidenceDb
  BY <1>1 DEF stageOf, certifiedBy, RunFor
<1>2. ASSUME NEW t \in Threads, EvidenceSave(t) PROVE Abstract!LadderNext
  BY <1>2, SaveCertifies DEF Abstract!LadderNext
<1>3. ASSUME NEW r \in Runs, NEW status \in Endings, RunEnds(r, status)
      PROVE  Abstract!LadderNext
  BY <1>3, RunEndEnds DEF Abstract!LadderNext, Abstract!Rungs, Kinds, Checks
<1>4. ASSUME NEW t \in Threads, NEW k \in Kinds, NEW v \in Versions, NEW r \in Runs,
             req[t] = [at |-> "submit", kind |-> k, ver |-> v],
             version[v] # None, Admit(k, v, r), UNCHANGED gdsVars
      PROVE  Abstract!LadderNext \/ UNCHANGED <<stageOf, certifiedBy>>
  <2>1. evidenceDb' = evidenceDb /\ \A q \in evidenceDb : runs'[q] = runs[q]
    BY <1>4, AdmitFacts DEF gdsVars, ServiceInv, EvidenceIsSound, TypeOK
  <2>2. certifiedBy' = certifiedBy
    BY <2>1 DEF certifiedBy
  <2>3. CASE runs[r] = None
    BY <1>4, <2>2, <2>3, AdmitBegins
    DEF Abstract!LadderNext, Abstract!Rungs, Kinds, Checks
  <2>4. CASE runs[r] # None
    <3>1. runs' = runs
      BY <1>4, <2>4 DEF Admit
    <3> QED
      BY <1>1, <2>1, <3>1
  <2> QED
    BY <2>3, <2>4
<1>5. UNCHANGED evidenceDb \/ \E t \in Threads : EvidenceSave(t)
  BY DEF Next, Arrival, Serve, vars, gdsVars, OnSpec, Restart, CreateRoot,
         EditParent, InvalidateMem, InvalidateSave, CreateRefused,
         CreateVersion, Build, Submit, SubmitReplyLost, CallFails, MarkRunning,
         SaveFirst, MemLast, MemFirst, SaveLast, RecordOwner, Poll, Observe,
         Record, Fetch, EvidenceMem, EvidenceTaken, OutcomeMem, OutcomeSave,
         RunEnds
<1> QED
  BY <1>1, <1>2, <1>3, <1>4, <1>5, RunsStep DEF ServiceInv

(* Every behaviour of the service, with its threads, rows, lost replies    *)
(* and restarts, is a behaviour of the ladder.                             *)
THEOREM ServiceClimbs == Spec => ClimbsTheLadder
<1>1. Spec => []TypeOK
  BY ServiceTypeCorrect
<1> QED
  BY <1>1, ServiceInvariant, LadderInitially, ClimbStep, PTL
  DEF Spec, ClimbsTheLadder, Abstract!LadderSpec
=============================================================================
