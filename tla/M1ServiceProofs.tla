-------------------------- MODULE M1ServiceProofs --------------------------
(***************************************************************************)
(* Proofs about M1Service, for any number of versions, runs and threads.   *)
(*                                                                         *)
(* The invariant is ServiceInv.  Its core is Sound: what a request in      *)
(* flight read earlier may be stale, but never in what matters, because    *)
(* between restarts runs, versions and evidence only grow (Grows), and a   *)
(* restart drops every request.                                            *)
(***************************************************************************)
EXTENDS M1Service, M1SpecsProofs

(* The specification half of M1Service is M1Specs.                         *)
LEMMA SpecHalfStep == [Next]_vars => [SpecNext]_specVars
BY DEF Next, Arrival, Serve, vars, OnSpec, SpecNext, Restart, CreateRoot,
   EditParent, InvalidateMem, InvalidateSave, CreateRefused, CreateVersion,
   Build, Submit, SubmitReplyLost, CallFails, MarkRunning, SaveFirst, MemLast,
   MemFirst, SaveLast, RecordOwner, Poll, Observe, Record, Fetch, EvidenceMem,
   EvidenceTaken, EvidenceSave, OutcomeMem, OutcomeSave, RunEnds

(* M1Service implements M1Specs, so everything proved there holds here.    *)
THEOREM SpecHalf == Spec => SpecSpec
<1>1. Init => SpecInit
  BY DEF Init
<1> QED
  BY <1>1, SpecHalfStep, PTL DEF Spec, SpecSpec

-----------------------------------------------------------------------------
(* What a step of the service never takes away, a restart apart.           *)
Grows ==
    /\ \A r \in Runs : runs[r] # None =>
          /\ runs'[r] # None
          /\ runs'[r].kind = runs[r].kind /\ runs'[r].ver = runs[r].ver
          /\ runs'[r].spec = runs[r].spec
          /\ runs[r].status # "active" => runs'[r] = runs[r]
    /\ \A v \in Versions : version[v] # None =>
          /\ version'[v] # None
          /\ version'[v].spec = version[v].spec
          /\ version'[v].parent = version[v].parent
    /\ evidence \subseteq evidence' /\ outcome \subseteq outcome'

LEMMA WritingShape ==
    ASSUME NEW q \in Request, q.at \in Writing
    PROVE  q.ver \in Versions /\ q.rec \in Version
           /\ q = [at |-> q.at, ver |-> q.ver, rec |-> q.rec]
BY DEF Request, Writing, Idle

LEMMA EarnedPersists ==
    ASSUME TypeOK, TypeOK', Grows, NEW v \in Versions, NEW rec \in Version,
           Earned(v, rec)
    PROVE  Earned(v, rec)'
BY ServiceAssumption
DEF TypeOK, Grows, Run, RunStatus, Observed, Earned, Justifies, RunFor, Version,
    Checks, CheckStatus, Kinds

LEMMA SoundPersists ==
    ASSUME TypeOK, TypeOK', Grows, NEW q \in Request, Sound(q)
    PROVE  Sound(q)'
<1> USE ServiceAssumption DEF TypeOK, Grows
<1>1. \A k \in Kinds, v \in Versions : RunFor(k, v) \subseteq RunFor(k, v)'
  BY DEF RunFor
<1>2. \A k \in Kinds, v \in Versions : Succeeded(k, v) => Succeeded(k, v)'
  BY <1>1 DEF Succeeded, RunFor
<1>3. (q.at = "invalidate_mem" => SameVersion(q.rec, q.parent))'
  <2>1. q.at = "invalidate_mem" => q.parent \in Versions
    BY DEF Request, Writing, Idle
  <2> QED
    BY <2>1 DEF Sound, SameVersion
<1>4. (q.at = "submit" =>
          /\ version[q.ver] # None
          /\ q.kind \in {"sim", "gds"} => Succeeded("verify", q.ver)
          /\ q.kind = "gds" => Succeeded("sim", q.ver))'
  <2>1. q.at = "submit" => q.ver \in Versions
    BY DEF Request, Writing, Idle
  <2> QED
    BY <1>2, <2>1 DEF Sound, Kinds, Checks
<1>5. (q.at = "marking" => version[q.ver] # None /\ q.run \in RunFor(q.kind, q.ver))'
  <2>1. q.at = "marking" => q.ver \in Versions /\ q.kind \in Kinds
    BY DEF Request, Writing, Idle, Kinds
  <2> QED
    BY <1>1, <2>1 DEF Sound
<1>6. (q.at = "owner" => version[q.ver] # None /\ q.run \in RunFor("gds", q.ver))'
  <2>1. q.at = "owner" => q.ver \in Versions
    BY DEF Request, Writing, Idle
  <2> QED
    BY <1>1, <2>1 DEF Sound, Kinds
<1>7. (q.at \in Writing => SameVersion(q.rec, q.ver) /\ Earned(q.ver, q.rec))'
  <2>1. CASE q.at \in Writing
    BY <2>1, WritingShape, EarnedPersists DEF Sound, SameVersion
  <2> QED
    BY <2>1 DEF Writing
<1>8. (q.at = "observe" =>
          /\ runs[q.run] # None /\ runs[q.run].status = q.status
          /\ q.user = OwnerOf[runs[q.run].spec])'
  <2>1. q.at = "observe" => q.run \in Runs /\ q.status # "active"
    BY DEF Request, Writing, Idle, Observed
  <2> QED
    BY <2>1 DEF Sound
<1>9. (q.at = "record" =>
          /\ version[q.ver] # None /\ q.run \in RunFor(q.kind, q.ver)
          /\ runs[q.run].status = q.status)'
  <2>1. q.at = "record" => /\ q.ver \in Versions /\ q.kind \in Kinds
                           /\ q.run \in Runs /\ q.status # "active"
    BY DEF Request, Writing, Idle, Kinds, Observed
  <2> QED
    BY <1>1, <2>1 DEF Sound, RunFor
<1>10. q.at \in {"fetch", "evidence_mem", "evidence_save", "outcome_mem",
                 "outcome_save"} => q.run \in Runs
  BY DEF Request, Writing, Idle
<1> QED
  BY <1>3, <1>4, <1>5, <1>6, <1>7, <1>8, <1>9, <1>10 DEF Sound

-----------------------------------------------------------------------------
(* The helpers the actions are built from.                                 *)
LEMMA MarkedFacts ==
    ASSUME NEW rec \in Version, NEW k \in Checks, NEW status \in CheckStatus,
           NEW r \in Runs
    PROVE  LET new == Marked(rec, k, status, r) IN
           /\ new \in Version
           /\ new.spec = rec.spec /\ new.parent = rec.parent
           /\ new.status[k] = status /\ new.run[k] = r
           /\ \A j \in Checks \ {k} : /\ new.status[j] = rec.status[j]
                                      /\ new.run[j] = rec.run[j]
BY DEF Marked, Version

LEMMA MarkedEarned ==
    ASSUME NEW v \in Versions, NEW rec \in Version, NEW k \in Checks,
           NEW r \in Runs, NEW status \in {"running", "passed", "failed"},
           Earned(v, rec), Justifies(r, v, k, status)
    PROVE  Earned(v, Marked(rec, k, status, r))
<1> DEFINE new == Marked(rec, k, status, r)
<1> SUFFICES ASSUME NEW j \in Checks
             PROVE  IF new.status[j] \in {"running", "passed", "failed"}
                    THEN Justifies(new.run[j], v, j, new.status[j])
                    ELSE new.run[j] = None
  BY DEF Earned
<1>1. status \in CheckStatus
  BY DEF CheckStatus
<1>2. CASE j = k
  <2>1. new.status[j] = status /\ new.run[j] = r
    BY <1>1, <1>2, MarkedFacts
  <2> QED
    BY <1>2, <2>1
<1>3. CASE j # k
  <2>1. new.status[j] = rec.status[j] /\ new.run[j] = rec.run[j]
    BY <1>1, <1>3, MarkedFacts
  <2> QED
    BY <2>1 DEF Earned
<1> QED
  BY <1>2, <1>3

LEMMA InvalidatedFacts ==
    ASSUME NEW rec \in Version
    PROVE  LET new == Invalidated(rec) IN
           /\ new \in Version
           /\ new.spec = rec.spec /\ new.parent = rec.parent
           /\ \A k \in Checks : new.status[k] = "invalidated" /\ new.run[k] = None
BY DEF Invalidated, Version, CheckStatus

LEMMA AdmitFacts ==
    ASSUME TypeOK, NEW k \in Kinds, NEW v \in Versions, NEW r \in Runs,
           version[v] # None, Admit(k, v, r)
    PROVE  /\ runs' \in [Runs -> Run \cup {None}]
           /\ \A q \in Runs : runs[q] # None => runs'[q] = runs[q]
           /\ \A q \in Runs \ {r} : runs'[q] = runs[q]
           /\ runs'[r] # None /\ runs'[r].kind = k /\ runs'[r].ver = v
           /\ runs[r] = None => /\ RunFor(k, v) = {}
                                /\ runs'[r].spec = version[v].spec
                                /\ runs'[r].status = "active"
<1> USE ServiceAssumption DEF TypeOK
<1>1. version[v].spec \in Specs
  BY DEF Version
<1>2. CASE r \in RunFor(k, v) /\ UNCHANGED runs
  BY <1>2 DEF RunFor
<1>3. CASE /\ RunFor(k, v) = {}
           /\ runs[r] = None
           /\ runs' = [runs EXCEPT ![r] =
                 [kind |-> k, ver |-> v, spec |-> version[v].spec,
                  status |-> "active", complete |-> FALSE]]
  <2> DEFINE new == [kind |-> k, ver |-> v, spec |-> version[v].spec,
                     status |-> "active", complete |-> FALSE]
  <2>1. new \in Run
    BY <1>1 DEF Run, RunStatus
  <2>2. new # None
    BY <2>1, ServiceAssumption
  <2> QED
    BY <1>3, <2>1, <2>2
<1> QED
  BY <1>2, <1>3 DEF Admit

LEMMA RunEndsFacts ==
    ASSUME TypeOK, NEW r \in Runs, NEW status \in Endings, RunEnds(r, status)
    PROVE  /\ runs' \in [Runs -> Run \cup {None}]
           /\ \A q \in Runs \ {r} : runs'[q] = runs[q]
           /\ runs[r] # None /\ runs[r].status = "active"
           /\ runs'[r] # None /\ runs'[r].kind = runs[r].kind
           /\ runs'[r].ver = runs[r].ver /\ runs'[r].spec = runs[r].spec
<1> USE ServiceAssumption DEF TypeOK
<1>1. PICK complete \in BOOLEAN :
         runs' = [runs EXCEPT ![r].status = status, ![r].complete = complete]
  BY DEF RunEnds
<1> DEFINE new == [runs[r] EXCEPT !.status = status, !.complete = complete]
<1>2. runs[r] \in Run /\ runs[r].status = "active"
  BY DEF RunEnds
<1>3. runs'[r] = new /\ \A q \in Runs \ {r} : runs'[q] = runs[q]
  BY <1>1
<1>4. /\ new \in Run /\ new.kind = runs[r].kind
      /\ new.ver = runs[r].ver /\ new.spec = runs[r].spec
  BY <1>2 DEF Run, RunStatus
<1> QED
  BY <1>1, <1>2, <1>3, <1>4

-----------------------------------------------------------------------------
(* Type correctness, action by action.                                     *)
LEMMA TypeStep == ServiceInv /\ [Next]_vars /\ SpecTypeOK' => TypeOK'
<1> SUFFICES ASSUME ServiceInv, [Next]_vars, SpecTypeOK' PROVE TypeOK'
  OBVIOUS
<1> USE ServiceAssumption
    DEF ServiceInv, TypeOK, Request, Writing, Idle, Version, Run, RunStatus, Observed,
        Kinds, Checks, CheckStatus, Goes, Done, Arrives, PutMem, PutDb, gdsVars
<1>1. ASSUME NEW t \in Threads, NEW s \in Specs, CreateRoot(t, s) PROVE TypeOK'
  BY <1>1 DEF CreateRoot
<1>2. ASSUME NEW t \in Threads, NEW p \in Versions, EditParent(t, p) PROVE TypeOK'
  BY <1>2 DEF EditParent
<1>3. ASSUME NEW t \in Threads, InvalidateMem(t) PROVE TypeOK'
  BY <1>3, InvalidatedFacts DEF InvalidateMem
<1>4. ASSUME NEW t \in Threads, InvalidateSave(t) PROVE TypeOK'
  BY <1>4 DEF InvalidateSave
<1>5. ASSUME NEW t \in Threads, CreateRefused(t) PROVE TypeOK'
  BY <1>5 DEF CreateRefused
<1>6. ASSUME NEW t \in Threads, NEW v \in Versions, CreateVersion(t, v) PROVE TypeOK'
  BY <1>6 DEF CreateVersion, NewVersion
<1>7. ASSUME NEW t \in Threads, NEW v \in Versions, NEW k \in Kinds, Build(t, k, v) PROVE TypeOK'
  BY <1>7 DEF Build
<1>8. ASSUME NEW t \in Threads, NEW r \in Runs, Submit(t, r) PROVE TypeOK'
  <2>1. version[req[t].ver] # None
    BY <1>8 DEF Submit, Sound
  <2>2. runs' \in [Runs -> Run \cup {None}]
    BY <1>8, <2>1, AdmitFacts DEF Submit
  <2> QED
    BY <1>8, <2>2 DEF Submit
<1>9. ASSUME NEW t \in Threads, NEW r \in Runs, SubmitReplyLost(t, r) PROVE TypeOK'
  <2>1. version[req[t].ver] # None
    BY <1>9 DEF SubmitReplyLost, Sound
  <2>2. runs' \in [Runs -> Run \cup {None}]
    BY <1>9, <2>1, AdmitFacts DEF SubmitReplyLost
  <2> QED
    BY <1>9, <2>2 DEF SubmitReplyLost
<1>10. ASSUME NEW t \in Threads, CallFails(t) PROVE TypeOK'
  BY <1>10 DEF CallFails
<1>11. ASSUME NEW t \in Threads, MarkRunning(t) PROVE TypeOK'
  <2>1. version[req[t].ver] \in Version
    BY <1>11 DEF MarkRunning, Sound
  <2> QED
    BY <1>11, <2>1, MarkedFacts DEF MarkRunning
<1>12. ASSUME NEW t \in Threads, SaveFirst(t) PROVE TypeOK'
  BY <1>12 DEF SaveFirst
<1>13. ASSUME NEW t \in Threads, MemLast(t) PROVE TypeOK'
  BY <1>13 DEF MemLast
<1>14. ASSUME NEW t \in Threads, MemFirst(t) PROVE TypeOK'
  BY <1>14 DEF MemFirst
<1>15. ASSUME NEW t \in Threads, SaveLast(t) PROVE TypeOK'
  BY <1>15 DEF SaveLast
<1>16. ASSUME NEW t \in Threads, RecordOwner(t) PROVE TypeOK'
  BY <1>16 DEF RecordOwner, Sound
<1>17. ASSUME NEW t \in Threads, NEW r \in Runs, NEW u \in Users, Poll(t, r, u) PROVE TypeOK'
  BY <1>17 DEF Poll
<1>18. ASSUME NEW t \in Threads, Observe(t) PROVE TypeOK'
  BY <1>18 DEF Observe
<1>19. ASSUME NEW t \in Threads, Record(t) PROVE TypeOK'
  <2>1. version[req[t].ver] \in Version
    BY <1>19 DEF Record, Sound
  <2> QED
    BY <1>19, <2>1, MarkedFacts, SMTT(30) DEF Record
<1>20. ASSUME NEW t \in Threads, Fetch(t) PROVE TypeOK'
  BY <1>20, SMTT(30) DEF Fetch
<1>21. ASSUME NEW t \in Threads, EvidenceMem(t) PROVE TypeOK'
  BY <1>21 DEF EvidenceMem
<1>22. ASSUME NEW t \in Threads, EvidenceTaken(t) PROVE TypeOK'
  BY <1>22 DEF EvidenceTaken
<1>23. ASSUME NEW t \in Threads, EvidenceSave(t) PROVE TypeOK'
  BY <1>23 DEF EvidenceSave
<1>24. ASSUME NEW t \in Threads, OutcomeMem(t) PROVE TypeOK'
  BY <1>24 DEF OutcomeMem
<1>25. ASSUME NEW t \in Threads, OutcomeSave(t) PROVE TypeOK'
  BY <1>25 DEF OutcomeSave
<1>26. ASSUME NEW r \in Runs, NEW status \in Endings, RunEnds(r, status)
       PROVE  TypeOK'
  BY <1>26, RunEndsFacts DEF RunEnds
<1>27. CASE Restart
  BY <1>27 DEF Restart
<1>28. ASSUME NEW t \in SpecThreads, OnSpec(t) PROVE TypeOK'
  BY <1>28 DEF OnSpec
<1>29. CASE UNCHANGED vars
  BY <1>29 DEF vars
<1> QED
  BY <1>1, <1>2, <1>3, <1>4, <1>5, <1>6, <1>7, <1>8, <1>9,
     <1>10, <1>11, <1>12, <1>13, <1>14, <1>15, <1>16, <1>17,
     <1>18, <1>19, <1>20, <1>21, <1>22, <1>23, <1>24, <1>25,
     <1>26, <1>27, <1>28, <1>29
  DEF Next, Arrival, Serve

-----------------------------------------------------------------------------
(* Between restarts, runs, versions and evidence only grow.                *)
LEMMA GrowsStep == ServiceInv /\ TypeOK' /\ Next => Restart \/ Grows
<1> SUFFICES ASSUME ServiceInv, TypeOK', Next, ~Restart PROVE Grows
  OBVIOUS
<1> USE ServiceAssumption DEF ServiceInv, TypeOK, gdsVars
<1>1. ASSUME NEW t \in Threads, InvalidateMem(t) PROVE Grows
  <2>1. req[t].parent \in Versions /\ req[t].rec \in Version
    BY <1>1 DEF InvalidateMem, Request, Writing, Idle
  <2> QED
    BY <1>1, <2>1, InvalidatedFacts DEF InvalidateMem, PutMem, Sound, SameVersion, Grows
<1>2. ASSUME NEW t \in Threads, NEW v \in Versions, CreateVersion(t, v)
      PROVE  Grows
  BY <1>2 DEF CreateVersion, Fresh, PutMem, Grows
<1>3. ASSUME NEW t \in Threads, MemLast(t) \/ MemFirst(t) PROVE Grows
  <2>1. req[t].at \in Writing
    BY <1>3 DEF MemLast, MemFirst, Writing
  <2>2. req[t].ver \in Versions /\ req[t].rec \in Version
    BY <2>1, WritingShape
  <2> QED
    BY <1>3, <2>1, <2>2 DEF MemLast, MemFirst, PutMem, Sound, SameVersion, Grows
<1>4. ASSUME NEW t \in Threads, NEW r \in Runs,
             Submit(t, r) \/ SubmitReplyLost(t, r)
      PROVE  Grows
  <2>1. /\ req[t].kind \in Kinds /\ req[t].ver \in Versions
        /\ version[req[t].ver] # None
    BY <1>4 DEF Submit, SubmitReplyLost, Sound, Request, Writing, Idle
  <2>2. Admit(req[t].kind, req[t].ver, r)
    BY <1>4 DEF Submit, SubmitReplyLost
  <2>3. \A q \in Runs : runs[q] # None => runs'[q] = runs[q]
    BY <2>1, <2>2, AdmitFacts
  <2> QED
    BY <1>4, <2>3 DEF Submit, SubmitReplyLost, Grows
<1>5. ASSUME NEW r \in Runs, NEW status \in Endings, RunEnds(r, status)
      PROVE  Grows
  BY <1>5, RunEndsFacts DEF RunEnds, Grows
<1>6. ASSUME NEW t \in Threads, EvidenceMem(t) \/ OutcomeMem(t) PROVE Grows
  BY <1>6 DEF EvidenceMem, OutcomeMem, Grows
<1>7. ASSUME UNCHANGED <<version, evidence, outcome, runs>> PROVE Grows
  BY <1>7 DEF Grows
<1> QED
  BY <1>1, <1>2, <1>3, <1>4, <1>5, <1>6, <1>7
  DEF Next, Arrival, Serve, OnSpec, CreateRoot, EditParent, InvalidateSave,
      CreateRefused, Build, CallFails, MarkRunning, SaveFirst, SaveLast,
      RecordOwner, Poll, Observe, Record, Fetch, EvidenceTaken, EvidenceSave,
      OutcomeSave

LEMMA OthersSound ==
    ASSUME TypeOK, TypeOK', Grows, NEW t \in Threads, NEW u \in Threads,
           Sound(req[u]), req'[u] = req[u]
    PROVE  Sound(req[u])'
<1> DEFINE q == req[u]
<1>1. PICK p \in Request : p = req[u]
  BY DEF TypeOK
<1>2. Sound(p)'
  BY <1>1, SoundPersists
<1> QED
  BY <1>1, <1>2

-----------------------------------------------------------------------------
(* A version that passed a check has a run that succeeded in it.           *)
LEMMA PassedSucceeded ==
    ASSUME ServiceInv, NEW v \in Versions, NEW k \in Checks,
           version[v] # None, version[v].status[k] = "passed"
    PROVE  Succeeded(k, v)
BY DEF ServiceInv, VerdictsAreEarned, Earned, Justifies, Succeeded, RunFor

(* The request a step leaves behind is sound, action by action.            *)
LEMMA OwnSound ==
    ASSUME ServiceInv, TypeOK', NEW t \in Threads, Arrival(t) \/ Serve(t)
    PROVE  Sound(req[t])'
<1> USE ServiceAssumption
    DEF ServiceInv, TypeOK, Goes, Done, Arrives, PutMem, PutDb, gdsVars
<1>1. ASSUME req'[t].at \in {"idle", "create", "invalidate_save"}
      PROVE  Sound(req[t])'
  BY <1>1 DEF Sound, Writing
<1>2. ASSUME NEW p \in Versions, EditParent(t, p) PROVE Sound(req[t])'
  BY <1>2 DEF EditParent, Sound, SameVersion, Writing
<1>3. ASSUME NEW v \in Versions, CreateVersion(t, v) PROVE Sound(req[t])'
  <2>1. PICK rec \in Version :
           /\ \E s \in Specs, p \in Versions \cup {None} : rec = NewVersion(s, p)
           /\ req'[t] = [at |-> "save", ver |-> v, rec |-> rec]
           /\ version'[v] = rec
    <3> DEFINE new == NewVersion(req[t].spec, req[t].parent)
    <3>1. req[t].spec \in Specs /\ req[t].parent \in Versions \cup {None}
      BY <1>3 DEF CreateVersion, Request, Writing, Idle
    <3>2. new \in Version
      BY <3>1 DEF NewVersion, Version, CheckStatus
    <3> QED
      BY <1>3, <3>1, <3>2 DEF CreateVersion
  <2>2. SameVersion(rec, v)'
    BY <2>1 DEF SameVersion
  <2>3. Earned(v, rec)'
    BY <2>1 DEF Earned, NewVersion
  <2> QED
    BY <2>1, <2>2, <2>3 DEF Sound, Writing
<1>4. ASSUME NEW v \in Versions, NEW k \in Kinds, Build(t, k, v)
      PROVE  Sound(req[t])'
  <2>1. /\ req'[t] = [at |-> "submit", kind |-> k, ver |-> v]
        /\ version[v] # None /\ UNCHANGED <<version, runs>>
    BY <1>4 DEF Build
  <2>2. k \in {"sim", "gds"} => Succeeded("verify", v)
    BY <1>4, PassedSucceeded DEF Build, SimGate, GdsGate, Kinds, Checks
  <2>3. k = "gds" => Succeeded("sim", v)
    BY <1>4, PassedSucceeded DEF Build, GdsGate, Kinds, Checks
  <2>4. \A j \in Kinds : Succeeded(j, v) => Succeeded(j, v)'
    BY <2>1 DEF Succeeded, RunFor
  <2> QED
    BY <2>1, <2>2, <2>3, <2>4 DEF Sound, Writing, Kinds, Checks
<1>5. ASSUME NEW r \in Runs, Submit(t, r) PROVE Sound(req[t])'
  <2>1. PICK k \in Kinds, v \in Versions :
           req[t] = [at |-> "submit", kind |-> k, ver |-> v]
    BY <1>5 DEF Submit, Request, Writing, Idle
  <2>2. version[v] # None /\ version' = version
    BY <1>5, <2>1 DEF Submit, Sound
  <2>3. (r \in RunFor(k, v))'
    <3>1. Admit(k, v, r)
      BY <1>5, <2>1 DEF Submit
    <3> QED
      BY <2>2, <3>1, AdmitFacts DEF RunFor
  <2>4. \/ k = "gds" /\ req'[t] = [at |-> "owner", ver |-> v, run |-> r]
        \/ req'[t] = [at |-> "marking", kind |-> k, ver |-> v, run |-> r]
    BY <1>5, <2>1 DEF Submit
  <2> QED
    BY <2>2, <2>3, <2>4 DEF Sound, Writing
<1>6. ASSUME MarkRunning(t) PROVE Sound(req[t])'
  <2>1. PICK k \in Checks, v \in Versions, r \in Runs :
           req[t] = [at |-> "marking", kind |-> k, ver |-> v, run |-> r]
    BY <1>6 DEF MarkRunning, Request, Writing, Idle
  <2>2. version[v] \in Version /\ r \in RunFor(k, v)
    BY <2>1 DEF Sound
  <2>3. PICK rec \in Version :
           /\ rec = Marked(version[v], k, "running", r)
           /\ req'[t].at \in Writing /\ req'[t].ver = v /\ req'[t].rec = rec
    BY <1>6, <2>1, <2>2, MarkedFacts DEF MarkRunning, Writing, CheckStatus
  <2>4. UNCHANGED <<version, runs>>
    BY <1>6 DEF MarkRunning
  <2>5. SameVersion(rec, v)'
    BY <2>2, <2>3, <2>4, MarkedFacts DEF SameVersion, CheckStatus
  <2>6. Earned(v, rec)'
    <3>1. Earned(v, version[v])
      BY <2>2 DEF VerdictsAreEarned
    <3>2. Earned(v, rec)
      <4>1. Justifies(r, v, k, "running")
        BY <2>2 DEF Justifies
      <4> QED
        BY <2>2, <2>3, <3>1, <4>1, MarkedEarned
    <3> QED
      BY <2>4, <3>2 DEF Earned, Justifies, RunFor
  <2> QED
    BY <2>3, <2>5, <2>6 DEF Sound, Writing
<1>7. ASSUME SaveFirst(t) PROVE Sound(req[t])'
  <2>1. PICK v \in Versions, rec \in Version :
           /\ req[t] = [at |-> "save_first", ver |-> v, rec |-> rec]
           /\ req'[t] = [at |-> "mem_last", ver |-> v, rec |-> rec]
    BY <1>7, WritingShape DEF SaveFirst, Writing
  <2>2. SameVersion(rec, v) /\ Earned(v, rec)
    BY <2>1 DEF Sound, Writing
  <2>3. UNCHANGED <<version, runs>>
    BY <1>7 DEF SaveFirst
  <2>4. (SameVersion(rec, v) /\ Earned(v, rec))'
    BY <2>2, <2>3 DEF SameVersion, Earned, Justifies, RunFor
  <2> QED
    BY <2>1, <2>4 DEF Sound, Writing
<1>8. ASSUME MemFirst(t) PROVE Sound(req[t])'
  <2>1. PICK v \in Versions, rec \in Version :
           /\ req[t] = [at |-> "mem", ver |-> v, rec |-> rec]
           /\ req'[t] = [at |-> "save", ver |-> v, rec |-> rec]
           /\ version'[v] = rec
    BY <1>8, WritingShape DEF MemFirst, Writing
  <2>2. Earned(v, rec) /\ UNCHANGED runs
    BY <1>8, <2>1 DEF Sound, Writing, MemFirst
  <2>3. SameVersion(rec, v)' /\ Earned(v, rec)'
    BY <2>1, <2>2 DEF SameVersion, Earned, Justifies, RunFor
  <2> QED
    BY <2>1, <2>3 DEF Sound, Writing
<1>9. ASSUME NEW r \in Runs, NEW u \in Users, Poll(t, r, u) PROVE Sound(req[t])'
  <2>1. /\ runs[r] # None /\ UNCHANGED runs
        /\ req'[t] = [at |-> "observe", user |-> u, run |-> r,
                      status |-> runs[r].status]
    BY <1>9 DEF Poll
  <2>2. u = OwnerOf[runs[r].spec]
    <3>1. ASSUME NEW v \in Versions, version[v] # None,
                 NEW k \in Checks, version[v].run[k] = r
          PROVE  version[v].spec = runs[r].spec
      BY <3>1, <2>1 DEF VerdictsAreEarned, Earned, Justifies, RunFor, RunsKnowTheirSpec
    <3> QED
      BY <1>9, <2>1, <3>1 DEF Poll, MayObserve, RecordedOn, RunsKnowTheirSpec
  <2> QED
    BY <2>1, <2>2 DEF Sound, Writing
<1>10. ASSUME Observe(t) PROVE Sound(req[t])'
  <2>1. PICK r \in Runs, status \in Observed :
           /\ req[t].at = "observe" /\ req[t].run = r /\ req[t].status = status
           /\ runs[r] # None /\ runs[r].status = status
    BY <1>10 DEF Observe, Request, Writing, Idle, Sound
  <2>2. UNCHANGED <<version, runs>>
    BY <1>10 DEF Observe
  <2>3. ASSUME NEW v \in Versions, NEW k \in Checks, WaitsFor(v, k, r)
        PROVE  (r \in RunFor(k, v))'
    BY <2>2, <2>3 DEF WaitsFor, VerdictsAreEarned, Earned, Justifies, RunFor
  <2> QED
    BY <1>10, <2>1, <2>2, <2>3 DEF Observe, Sound, Writing, WaitsFor, Idle
<1>11. ASSUME Record(t) PROVE Sound(req[t])'
  <2>1. PICK k \in Checks, v \in Versions, r \in Runs, status \in Observed :
           req[t] = [at |-> "record", kind |-> k, ver |-> v, run |-> r,
                     status |-> status]
    BY <1>11 DEF Record, Request, Writing, Idle
  <2> DEFINE verdict == IF status = "succeeded" THEN "passed" ELSE "failed"
  <2>2. /\ version[v] \in Version /\ r \in RunFor(k, v)
        /\ runs[r].status = status /\ verdict \in CheckStatus
    BY <2>1 DEF Sound, CheckStatus
  <2>3. CASE req'[t] = Idle
    BY <1>1, <2>3 DEF Idle
  <2>4. CASE req'[t] = [at |-> "mem", ver |-> v,
                        rec |-> Marked(version[v], k, verdict, r)]
    <3>1. PICK rec \in Version : /\ rec = Marked(version[v], k, verdict, r)
                                 /\ req'[t] = [at |-> "mem", ver |-> v, rec |-> rec]
      BY <2>2, <2>4, MarkedFacts
    <3>2. UNCHANGED <<version, runs>>
      BY <1>11 DEF Record
    <3>3. SameVersion(rec, v) /\ Earned(v, version[v])
      BY <2>2, <3>1, MarkedFacts DEF SameVersion, VerdictsAreEarned
    <3>4. Earned(v, rec)
      <4>1. Justifies(r, v, k, verdict)
        BY <2>2 DEF Justifies
      <4> QED
        BY <2>2, <3>1, <3>3, <4>1, MarkedEarned
    <3>5. (SameVersion(rec, v) /\ Earned(v, rec))'
      BY <3>2, <3>3, <3>4 DEF SameVersion, Earned, Justifies, RunFor
    <3> QED
      BY <3>1, <3>5 DEF Sound, Writing
  <2> QED
    BY <1>11, <2>1, <2>3, <2>4 DEF Record
<1>12. ASSUME Fetch(t) PROVE Sound(req[t])'
  BY <1>12 DEF Fetch, Sound, Writing, Idle
<1>13. ASSUME EvidenceMem(t) PROVE Sound(req[t])'
  BY <1>13 DEF EvidenceMem, Sound, Request, Writing, Idle
<1>14. ASSUME OutcomeMem(t) PROVE Sound(req[t])'
  BY <1>14 DEF OutcomeMem, Sound, Request, Writing, Idle
<1> QED
  BY <1>1, <1>2, <1>3, <1>4, <1>5, <1>6, <1>7, <1>8, <1>9, <1>10, <1>11, <1>12,
     <1>13, <1>14
  DEF Arrival, Serve, CreateRoot, InvalidateMem, InvalidateSave, CreateRefused,
      SubmitReplyLost, CallFails, MemLast, SaveLast, RecordOwner, EvidenceTaken,
      EvidenceSave, OutcomeSave, Idle

LEMMA SoundStep ==
    ServiceInv /\ TypeOK' /\ [Next]_vars => (\A t \in Threads : Sound(req[t]))'
<1> SUFFICES ASSUME ServiceInv, TypeOK', [Next]_vars, NEW t \in Threads
             PROVE  Sound(req[t])'
  OBVIOUS
<1>1. CASE Restart
  <2>1. req'[t] = Idle
    BY <1>1 DEF Restart
  <2> QED
    BY <2>1 DEF Sound, Writing, Idle
<1>2. CASE UNCHANGED vars
  <2>1. Grows /\ req'[t] = req[t]
    BY <1>2 DEF vars, gdsVars, Grows
  <2> QED
    BY <2>1, OthersSound DEF ServiceInv
<1>3. CASE Next /\ ~Restart
  <2>1. Grows
    BY <1>3, GrowsStep
  <2>2. CASE Arrival(t) \/ Serve(t)
    BY <2>2, OwnSound
  <2>3. CASE req'[t] = req[t]
    BY <2>1, <2>3, OthersSound DEF ServiceInv
  <2>4. ASSUME NEW u \in Threads, Arrival(u) \/ Serve(u), u # t
        PROVE  req'[t] = req[t]
    BY <2>4
    DEF ServiceInv, TypeOK, Arrival, Serve, Goes, Done, CreateRoot, EditParent,
        InvalidateMem, InvalidateSave, CreateRefused, CreateVersion, Build,
        Submit, SubmitReplyLost, CallFails, MarkRunning, SaveFirst, MemLast,
        MemFirst, SaveLast, RecordOwner, Poll, Observe, Record, Fetch,
        EvidenceMem, EvidenceTaken, EvidenceSave, OutcomeMem, OutcomeSave
  <2> QED
    BY <1>3, <2>2, <2>3, <2>4 DEF Next, RunEnds, OnSpec
<1> QED
  BY <1>1, <1>2, <1>3

-----------------------------------------------------------------------------
(* The two ways runs change: a task is admitted, a run ends.               *)
LEMMA RunsStep ==
    ASSUME ServiceInv, [Next]_vars
    PROVE  \/ UNCHANGED runs
           \/ \E t \in Threads, k \in Kinds, v \in Versions, r \in Runs :
                 /\ req[t] = [at |-> "submit", kind |-> k, ver |-> v]
                 /\ version[v] # None /\ Admit(k, v, r)
                 /\ UNCHANGED <<version, versionDb, gdsVars>>
           \/ \E r \in Runs, status \in Endings : RunEnds(r, status)
<1>1. ASSUME NEW t \in Threads, NEW r \in Runs,
             Submit(t, r) \/ SubmitReplyLost(t, r)
      PROVE  \E k \in Kinds, v \in Versions :
                 /\ req[t] = [at |-> "submit", kind |-> k, ver |-> v]
                 /\ version[v] # None /\ Admit(k, v, r)
                 /\ UNCHANGED <<version, versionDb, gdsVars>>
  <2>1. PICK k \in Kinds, v \in Versions :
           req[t] = [at |-> "submit", kind |-> k, ver |-> v]
    BY <1>1 DEF ServiceInv, TypeOK, Submit, SubmitReplyLost, Request, Writing, Idle
  <2>2. version[v] # None
    BY <2>1 DEF ServiceInv, Sound
  <2> QED
    BY <1>1, <2>1, <2>2 DEF Submit, SubmitReplyLost
<1> QED
  BY <1>1, ZenonT(60)
  DEF Next, Arrival, Serve, vars, OnSpec, Restart, CreateRoot, EditParent,
      InvalidateMem, InvalidateSave, CreateRefused, CreateVersion, Build,
      CallFails, MarkRunning, SaveFirst, MemLast, MemFirst, SaveLast,
      RecordOwner, Poll, Observe, Record, Fetch, EvidenceMem, EvidenceTaken,
      EvidenceSave, OutcomeMem, OutcomeSave

(* Runs grow in every step, restarts included.                             *)
RunsGrow ==
    \A r \in Runs : runs[r] # None =>
        /\ runs'[r] # None
        /\ runs'[r].kind = runs[r].kind /\ runs'[r].ver = runs[r].ver
        /\ runs'[r].spec = runs[r].spec
        /\ runs[r].status # "active" => runs'[r] = runs[r]

LEMMA RunsGrowStep == ServiceInv /\ TypeOK' /\ [Next]_vars => RunsGrow
BY GrowsStep DEF Grows, RunsGrow, Restart, vars

LEMMA OneRunStep == ServiceInv /\ [Next]_vars => OneRunPerTask'
<1> SUFFICES ASSUME ServiceInv, [Next]_vars PROVE OneRunPerTask'
  OBVIOUS
<1> USE DEF ServiceInv, OneRunPerTask
<1>1. CASE UNCHANGED runs
  BY <1>1
<1>2. ASSUME NEW k \in Kinds, NEW v \in Versions, NEW r \in Runs,
             version[v] # None, Admit(k, v, r)
      PROVE  OneRunPerTask'
  BY <1>2, AdmitFacts DEF RunFor
<1>3. ASSUME NEW r \in Runs, NEW status \in Endings, RunEnds(r, status)
      PROVE  OneRunPerTask'
  BY <1>3, RunEndsFacts
<1> QED
  BY <1>1, <1>2, <1>3, RunsStep

LEMMA LadderStep == ServiceInv /\ TypeOK' /\ [Next]_vars => LadderRespected'
<1> SUFFICES ASSUME ServiceInv, TypeOK', [Next]_vars PROVE LadderRespected'
  OBVIOUS
<1> USE DEF ServiceInv, LadderRespected
<1>1. \A k \in Kinds, v \in Versions : Succeeded(k, v) => Succeeded(k, v)'
  BY RunsGrowStep DEF RunsGrow, Succeeded, RunFor
<1>2. \A r \in Runs : runs[r] # None => runs[r].ver \in Versions
  BY DEF TypeOK, Run
<1>3. CASE UNCHANGED runs
  BY <1>1, <1>2, <1>3 DEF Kinds, Checks
<1>4. ASSUME NEW t \in Threads, NEW k \in Kinds, NEW v \in Versions, NEW r \in Runs,
             req[t] = [at |-> "submit", kind |-> k, ver |-> v],
             version[v] # None, Admit(k, v, r)
      PROVE  LadderRespected'
  <2>1. /\ k \in {"sim", "gds"} => Succeeded("verify", v)
        /\ k = "gds" => Succeeded("sim", v)
    BY <1>4 DEF Sound
  <2> QED
    BY <1>1, <1>2, <1>4, <2>1, AdmitFacts DEF Kinds, Checks
<1>5. ASSUME NEW r \in Runs, NEW status \in Endings, RunEnds(r, status)
      PROVE  LadderRespected'
  BY <1>1, <1>2, <1>5, RunEndsFacts DEF Kinds, Checks
<1> QED
  BY <1>3, <1>4, <1>5, RunsStep

-----------------------------------------------------------------------------
(* The ways a version record changes, in memory and in its row.            *)
LEMMA VersionStep ==
    ASSUME ServiceInv, [Next]_vars, NEW v \in Versions
    PROVE  \/ version'[v] = version[v]
           \/ Restart
           \/ \E t \in Threads, rec \in Version :
                 /\ req[t].at = "invalidate_mem" /\ SameVersion(rec, v)
                 /\ version'[v] = Invalidated(rec)
           \/ \E s \in Specs, p \in Versions \cup {None} :
                 /\ Fresh(v) /\ version'[v] = NewVersion(s, p)
                 /\ UNCHANGED <<versionDb, runs, runOwnerDb>>
           \/ \E t \in Threads, rec \in Version :
                 /\ req[t].at \in Writing /\ req[t].ver = v /\ req[t].rec = rec
                 /\ version'[v] = rec
<1> USE DEF ServiceInv, TypeOK
<1>1. ASSUME NEW t \in Threads, InvalidateMem(t), version'[v] # version[v]
      PROVE  \E rec \in Version :
                 /\ req[t].at = "invalidate_mem" /\ SameVersion(rec, v)
                 /\ version'[v] = Invalidated(rec)
  <2>1. req[t].parent \in Versions /\ req[t].rec \in Version
    BY <1>1 DEF InvalidateMem, Request, Writing, Idle
  <2> QED
    BY <1>1, <2>1 DEF InvalidateMem, PutMem, Sound
<1>2. ASSUME NEW t \in Threads, NEW w \in Versions, CreateVersion(t, w),
             version'[v] # version[v]
      PROVE  \E s \in Specs, p \in Versions \cup {None} :
                 /\ Fresh(v) /\ version'[v] = NewVersion(s, p)
                 /\ UNCHANGED <<versionDb, runs, runOwnerDb>>
  <2>1. req[t].spec \in Specs /\ req[t].parent \in Versions \cup {None}
    BY <1>2 DEF CreateVersion, Request, Writing, Idle
  <2> QED
    BY <1>2, <2>1 DEF CreateVersion, PutMem, gdsVars
<1>3. ASSUME NEW t \in Threads, MemLast(t) \/ MemFirst(t), version'[v] # version[v]
      PROVE  \E rec \in Version :
                 /\ req[t].at \in Writing /\ req[t].ver = v /\ req[t].rec = rec
                 /\ version'[v] = rec
  <2>1. req[t].at \in Writing
    BY <1>3 DEF MemLast, MemFirst, Writing
  <2> QED
    BY <1>3, <2>1, WritingShape DEF MemLast, MemFirst, PutMem
<1> QED
  BY <1>1, <1>2, <1>3
  DEF Next, Arrival, Serve, vars, OnSpec, CreateRoot, EditParent,
      InvalidateSave, CreateRefused, Build, Submit, SubmitReplyLost, CallFails,
      MarkRunning, SaveFirst, SaveLast, RecordOwner, Poll, Observe, Record,
      Fetch, EvidenceMem, EvidenceTaken, EvidenceSave, OutcomeMem, OutcomeSave,
      RunEnds

LEMMA RowStep ==
    ASSUME ServiceInv, [Next]_vars, NEW v \in Versions
    PROVE  \/ versionDb'[v] = versionDb[v]
           \/ versionDb'[v] = version[v] /\ UNCHANGED <<version, runs>>
           \/ \E t \in Threads, rec \in Version :
                 /\ req[t].at \in Writing /\ req[t].ver = v /\ req[t].rec = rec
                 /\ versionDb'[v] = rec /\ UNCHANGED <<version, runs>>
<1> USE DEF ServiceInv, TypeOK
<1>1. ASSUME NEW t \in Threads, SaveFirst(t) \/ SaveLast(t),
             versionDb'[v] # versionDb[v]
      PROVE  \E rec \in Version :
                 /\ req[t].at \in Writing /\ req[t].ver = v /\ req[t].rec = rec
                 /\ versionDb'[v] = rec /\ UNCHANGED <<version, runs>>
  <2>1. req[t].at \in Writing
    BY <1>1 DEF SaveFirst, SaveLast, Writing
  <2> QED
    BY <1>1, <2>1, WritingShape DEF SaveFirst, SaveLast, PutDb
<1>2. ASSUME NEW t \in Threads, InvalidateSave(t)
      PROVE  \/ versionDb'[v] = versionDb[v]
             \/ versionDb'[v] = version[v] /\ UNCHANGED <<version, runs>>
  BY <1>2 DEF InvalidateSave, PutDb
<1> QED
  BY <1>1, <1>2
  DEF Next, Arrival, Serve, vars, OnSpec, Restart, CreateRoot, EditParent,
      InvalidateMem, CreateRefused, CreateVersion, Build, Submit,
      SubmitReplyLost, CallFails, MarkRunning, MemLast, MemFirst, RecordOwner,
      Poll, Observe, Record, Fetch, EvidenceMem, EvidenceTaken, EvidenceSave,
      OutcomeMem, OutcomeSave, RunEnds

(* What was earned stays earned, restarts included.                        *)
LEMMA EarnedStays ==
    ASSUME ServiceInv, TypeOK', [Next]_vars, NEW v \in Versions,
           NEW rec \in Version, Earned(v, rec)
    PROVE  Earned(v, rec)'
BY ServiceAssumption, RunsGrowStep
DEF ServiceInv, TypeOK, RunsGrow, Run, RunStatus, Observed, Earned, Justifies,
    RunFor, Version, Checks, CheckStatus, Kinds

LEMMA VerdictsStep ==
    ServiceInv /\ TypeOK' /\ [Next]_vars => VerdictsAreEarned'
<1> SUFFICES ASSUME ServiceInv, TypeOK', [Next]_vars PROVE VerdictsAreEarned'
  OBVIOUS
<1> USE ServiceAssumption DEF ServiceInv
<1>1. ASSUME NEW v \in Versions, versionDb'[v] # None
      PROVE  \E rec \in Version : rec = versionDb'[v] /\ Earned(v, rec)'
  <2>1. PICK rec \in Version : rec = versionDb'[v]
    BY <1>1 DEF TypeOK
  <2>2. Earned(v, rec)
    BY <1>1, <2>1, RowStep DEF VerdictsAreEarned
  <2> QED
    BY <2>1, <2>2, EarnedStays
<1>2. ASSUME NEW v \in Versions, version'[v] # None
      PROVE  \E rec \in Version : rec = version'[v] /\ Earned(v, rec)'
  <2>1. PICK rec \in Version : rec = version'[v]
    BY <1>2 DEF TypeOK
  <2>2. Earned(v, rec)
    <3>1. CASE version'[v] = version[v] \/ Restart
      BY <1>2, <2>1, <3>1 DEF VerdictsAreEarned, Restart
    <3>2. ASSUME NEW old \in Version, version'[v] = Invalidated(old)
          PROVE  Earned(v, rec)
      BY <2>1, <3>2, InvalidatedFacts DEF Earned
    <3>3. ASSUME NEW s \in Specs, NEW p \in Versions \cup {None},
                 version'[v] = NewVersion(s, p)
          PROVE  Earned(v, rec)
      BY <2>1, <3>3 DEF Earned, NewVersion
    <3>4. ASSUME NEW t \in Threads, req[t].at \in Writing, req[t].ver = v,
                 version'[v] = req[t].rec
          PROVE  Earned(v, rec)
      BY <2>1, <3>4 DEF VerdictsAreEarned
    <3> QED
      BY <3>1, <3>2, <3>3, <3>4, VersionStep
  <2> QED
    BY <2>1, <2>2, EarnedStays
<1>3. \A t \in Threads : (req[t].at \in Writing => Earned(req[t].ver, req[t].rec))'
  BY SoundStep DEF Sound
<1> QED
  BY <1>1, <1>2, <1>3 DEF VerdictsAreEarned

-----------------------------------------------------------------------------
LEMMA RowsStep == ServiceInv /\ TypeOK' /\ [Next]_vars => RowsAreServed'
<1> SUFFICES ASSUME ServiceInv, TypeOK', [Next]_vars PROVE RowsAreServed'
  OBVIOUS
<1> USE ServiceAssumption DEF ServiceInv, RowsAreServed
<1>1. CASE Restart
  BY <1>1 DEF Restart
<1>2. CASE Next /\ ~Restart
  <2>1. Grows
    BY <1>2, GrowsStep
  <2>2. ASSUME NEW v \in Versions, versionDb'[v] # None
        PROVE  /\ version'[v] # None
               /\ versionDb'[v].spec = version'[v].spec
               /\ versionDb'[v].parent = version'[v].parent
    <3>1. CASE versionDb'[v] = versionDb[v]
      BY <2>1, <2>2, <3>1 DEF Grows
    <3>2. CASE versionDb'[v] = version[v] /\ UNCHANGED <<version, runs>>
      BY <2>2, <3>2
    <3>3. ASSUME NEW t \in Threads, req[t].at \in Writing, req[t].ver = v,
                 versionDb'[v] = req[t].rec, UNCHANGED version
          PROVE  /\ version'[v] # None
                 /\ versionDb'[v].spec = version'[v].spec
                 /\ versionDb'[v].parent = version'[v].parent
      BY <3>3 DEF Sound, SameVersion
    <3> QED
      BY <3>1, <3>2, <3>3, RowStep
  <2>3. evidenceDb' \subseteq evidence' /\ outcomeDb' \subseteq outcome'
    <3>1. ASSUME NEW t \in Threads, EvidenceSave(t) \/ OutcomeSave(t)
          PROVE  evidenceDb' \subseteq evidence' /\ outcomeDb' \subseteq outcome'
      BY <3>1 DEF EvidenceSave, OutcomeSave, Sound
    <3> QED
      BY <1>2, <2>1, <3>1
      DEF Grows, Next, Arrival, Serve, OnSpec, CreateRoot, EditParent,
          InvalidateMem, InvalidateSave, CreateRefused, CreateVersion, Build,
          Submit, SubmitReplyLost, CallFails, MarkRunning, SaveFirst, MemLast,
          MemFirst, SaveLast, RecordOwner, Poll, Observe, Record, Fetch,
          EvidenceMem, EvidenceTaken, OutcomeMem, RunEnds, gdsVars
  <2> QED
    BY <2>2, <2>3
<1>3. CASE UNCHANGED vars
  BY <1>3 DEF vars, gdsVars
<1> QED
  BY <1>1, <1>2, <1>3

LEMMA KnowStep == ServiceInv /\ TypeOK' /\ [Next]_vars => RunsKnowTheirSpec'
<1> SUFFICES ASSUME ServiceInv, TypeOK', [Next]_vars, NEW r \in Runs
             PROVE  /\ (runs'[r] # None /\ version'[runs'[r].ver] # None)
                          => version'[runs'[r].ver].spec = runs'[r].spec
                    /\ runOwnerDb'[r] # None
                          => /\ runs'[r] # None
                             /\ runOwnerDb'[r] = OwnerOf[runs'[r].spec]
  BY DEF RunsKnowTheirSpec
<1> USE ServiceAssumption DEF ServiceInv
<1>1. ASSUME runs'[r] # None, version'[runs'[r].ver] # None
      PROVE  version'[runs'[r].ver].spec = runs'[r].spec
  <2>1. PICK v \in Versions : v = runs'[r].ver
    BY <1>1 DEF TypeOK, Run
  <2>2. CASE runs[r] # None
    <3>1. runs[r].ver = v /\ runs'[r].spec = runs[r].spec
      BY <2>1, <2>2, RunsGrowStep DEF RunsGrow
    <3>2. CASE version[v] # None /\ Next /\ ~Restart
      BY <2>1, <2>2, <3>1, <3>2, GrowsStep DEF Grows, RunsKnowTheirSpec
    <3>3. CASE Restart
      BY <1>1, <2>1, <2>2, <3>1, <3>3 DEF Restart, RowsAreServed, RunsKnowTheirSpec
    <3>4. CASE UNCHANGED vars
      BY <1>1, <2>1, <3>4 DEF vars, RunsKnowTheirSpec
    <3>5. CASE version[v] = None /\ Next /\ ~Restart
      <4>1. ~Fresh(v)
        BY <2>2, <3>1 DEF Fresh, RunFor, TypeOK, Run
      <4>2. \A t \in Threads : req[t].at \in Writing => req[t].ver # v
        BY <3>5 DEF Sound, SameVersion
      <4> QED
        BY <1>1, <2>1, <3>5, <4>1, <4>2, VersionStep DEF SameVersion
    <3> QED
      BY <3>2, <3>3, <3>4, <3>5
  <2>3. CASE runs[r] = None
    <3>1. ASSUME NEW k \in Kinds, NEW w \in Versions, NEW q \in Runs,
                 version[w] # None, Admit(k, w, q), UNCHANGED version
          PROVE  version'[v].spec = runs'[r].spec
      <4>1. q = r
        BY <1>1, <2>3, <3>1, AdmitFacts
      <4> QED
        BY <2>1, <2>3, <3>1, <4>1, AdmitFacts
    <3>2. ASSUME NEW q \in Runs, NEW status \in Endings, RunEnds(q, status)
          PROVE  FALSE
      BY <1>1, <2>3, <3>2, RunEndsFacts
    <3> QED
      BY <1>1, <2>1, <2>3, <3>1, <3>2, RunsStep
  <2> QED
    BY <2>2, <2>3
<1>2. ASSUME runOwnerDb'[r] # None
      PROVE  runs'[r] # None /\ runOwnerDb'[r] = OwnerOf[runs'[r].spec]
  <2>1. CASE runOwnerDb'[r] = runOwnerDb[r]
    BY <1>2, <2>1, RunsGrowStep DEF RunsGrow, RunsKnowTheirSpec
  <2>2. ASSUME NEW t \in Threads, RecordOwner(t), runOwnerDb'[r] # runOwnerDb[r]
        PROVE  runs'[r] # None /\ runOwnerDb'[r] = OwnerOf[runs'[r].spec]
    <3>1. req[t].ver \in Versions /\ req[t].run \in Runs
      BY <2>2 DEF RecordOwner, TypeOK, Request, Writing, Idle
    <3>2. /\ version[req[t].ver] # None /\ runs[req[t].run] # None
          /\ runs[req[t].run].ver = req[t].ver
      BY <2>2 DEF RecordOwner, Sound, RunFor
    <3> QED
      BY <2>2, <3>1, <3>2 DEF RecordOwner, TypeOK, RunsKnowTheirSpec
  <2> QED
    BY <2>1, <2>2
    DEF Next, Arrival, Serve, vars, gdsVars, OnSpec, Restart, CreateRoot,
        EditParent, InvalidateMem, InvalidateSave, CreateRefused, CreateVersion,
        Build, Submit, SubmitReplyLost, CallFails, MarkRunning, SaveFirst,
        MemLast, MemFirst, SaveLast, Poll, Observe, Record, Fetch, EvidenceMem,
        EvidenceTaken, EvidenceSave, OutcomeMem, OutcomeSave, RunEnds
<1> QED
  BY <1>1, <1>2

LEMMA EvidenceStep == ServiceInv /\ TypeOK' /\ [Next]_vars => EvidenceIsSound'
<1> SUFFICES ASSUME ServiceInv, TypeOK', [Next]_vars PROVE EvidenceIsSound'
  OBVIOUS
<1> USE DEF ServiceInv
<1> DEFINE Certified(r) ==
              /\ runs[r] # None
              /\ runs[r].kind = "gds" /\ runs[r].status = "succeeded"
              /\ runs[r].complete
<1> DEFINE Incomplete(r) ==
              /\ runs[r] # None
              /\ runs[r].kind = "gds" /\ runs[r].status = "succeeded"
              /\ ~runs[r].complete
<1>1. \A r \in Runs : Certified(r) => Certified(r)'
  BY RunsGrowStep DEF RunsGrow
<1>2. \A r \in Runs : Incomplete(r) => Incomplete(r)'
  BY RunsGrowStep DEF RunsGrow
<1>3. \A r \in evidence' \cup evidenceDb' :
         r \in evidence \cup evidenceDb \/ \E t \in Threads :
            req[t].at \in {"evidence_mem", "evidence_save"} /\ r = req[t].run
  BY ZenonT(60) DEF Next, Arrival, Serve, vars, gdsVars, OnSpec, Restart, CreateRoot,
         EditParent, InvalidateMem, InvalidateSave, CreateRefused,
         CreateVersion, Build, Submit, SubmitReplyLost, CallFails, MarkRunning,
         SaveFirst, MemLast, MemFirst, SaveLast, RecordOwner, Poll, Observe,
         Record, Fetch, EvidenceMem, EvidenceTaken, EvidenceSave, OutcomeMem,
         OutcomeSave, RunEnds
<1>4. \A r \in outcome' \cup outcomeDb' :
         r \in outcome \cup outcomeDb \/ \E t \in Threads :
            req[t].at \in {"outcome_mem", "outcome_save"} /\ r = req[t].run
  BY ZenonT(60) DEF Next, Arrival, Serve, vars, gdsVars, OnSpec, Restart, CreateRoot,
         EditParent, InvalidateMem, InvalidateSave, CreateRefused,
         CreateVersion, Build, Submit, SubmitReplyLost, CallFails, MarkRunning,
         SaveFirst, MemLast, MemFirst, SaveLast, RecordOwner, Poll, Observe,
         Record, Fetch, EvidenceMem, EvidenceTaken, EvidenceSave, OutcomeMem,
         OutcomeSave, RunEnds
<1>5. \A r \in evidence' \cup evidenceDb' : r \in Runs /\ Certified(r)'
  <2>1. \A r \in evidence \cup evidenceDb : r \in Runs /\ Certified(r)
    BY DEF EvidenceIsSound, TypeOK
  <2>2. \A t \in Threads : req[t].at \in {"evidence_mem", "evidence_save"} =>
           Certified(req[t].run)
    BY DEF Sound
  <2> QED
    BY <1>1, <1>3, <2>1, <2>2 DEF TypeOK
<1>6. \A r \in outcome' \cup outcomeDb' : r \in Runs /\ Incomplete(r)'
  <2>1. \A r \in outcome \cup outcomeDb : r \in Runs /\ Incomplete(r)
    BY DEF EvidenceIsSound, TypeOK
  <2>2. \A t \in Threads : req[t].at \in {"outcome_mem", "outcome_save"} =>
           Incomplete(req[t].run)
    BY DEF Sound
  <2> QED
    BY <1>2, <1>4, <2>1, <2>2 DEF TypeOK
<1>7. LadderRespected'
  BY LadderStep
<1> QED
  BY <1>5, <1>6, <1>7 DEF EvidenceIsSound, LadderRespected

-----------------------------------------------------------------------------
LEMMA ServiceInitInv == Init => ServiceInv
BY ServiceAssumption, SpecInitInv
DEF Init, SpecInv, ServiceInv, TypeOK, Request, Idle, Sound, Writing,
    OneRunPerTask, RunsKnowTheirSpec, VerdictsAreEarned, LadderRespected,
    EvidenceIsSound, RowsAreServed

LEMMA ServiceNextInv == ServiceInv /\ SpecTypeOK' /\ [Next]_vars => ServiceInv'
BY TypeStep, SoundStep, OneRunStep, KnowStep, VerdictsStep, LadderStep,
   EvidenceStep, RowsStep
DEF ServiceInv

THEOREM ServiceInvariant == Spec => []ServiceInv
<1>1. Spec => []SpecTypeOK
  BY SpecHalf, SpecTypeCorrect, PTL
<1> QED
  BY <1>1, ServiceInitInv, ServiceNextInv, PTL DEF Spec

(* Every variable keeps its type.                                          *)
THEOREM ServiceTypeCorrect == Spec => []TypeOK
BY ServiceInvariant, PTL DEF ServiceInv

(* Every verdict, wherever it is held, is backed by a run of its version   *)
(* and check that ended that way.                                          *)
THEOREM VerdictsEarned == Spec => []VerdictsAreEarned
BY ServiceInvariant, PTL DEF ServiceInv

(* No simulation before a verification succeeded, no RTL to GDS before     *)
(* both did.                                                               *)
THEOREM LadderHolds == Spec => []LadderRespected
BY ServiceInvariant, PTL DEF ServiceInv

(* GDS evidence and outcomes say what their run did, and exclude another.  *)
THEOREM EvidenceSound == Spec => []EvidenceIsSound
BY ServiceInvariant, PTL DEF ServiceInv

(* A restart loads nothing that is not already served.                     *)
THEOREM RowsServed == Spec => []RowsAreServed
BY ServiceInvariant, PTL DEF ServiceInv

(* Only the owner of a run's spec observes it.                             *)
THEOREM OwnersOnly == Spec => []OnlyOwnersObserve
<1>1. ServiceInv => OnlyOwnersObserve
  BY DEF ServiceInv, Sound, OnlyOwnersObserve
<1> QED
  BY <1>1, ServiceInvariant, PTL

(* No version is shown as passed in one copy and as failed in another: the *)
(* two would name the same run, because a task has only one.               *)
THEOREM VerdictsAgree == Spec => []NoConflictingVerdicts
<1>1. ServiceInv => NoConflictingVerdicts
  <2> SUFFICES ASSUME ServiceInv, NEW v \in Versions, NEW k \in Checks,
                      NEW a \in CopiesOf(v), NEW b \in CopiesOf(v),
                      a.status[k] = "passed", b.status[k] = "failed"
               PROVE  FALSE
    BY DEF NoConflictingVerdicts
  <2>1. Earned(v, a) /\ Earned(v, b)
    BY DEF CopiesOf, ServiceInv, VerdictsAreEarned
  <2>2. /\ a.run[k] \in RunFor(k, v) /\ runs[a.run[k]].status = "succeeded"
        /\ b.run[k] \in RunFor(k, v) /\ runs[b.run[k]].status # "succeeded"
    BY <2>1 DEF Earned, Justifies, Observed
  <2> QED
    BY <2>2 DEF ServiceInv, OneRunPerTask, RunFor
<1> QED
  BY <1>1, ServiceInvariant, PTL

-----------------------------------------------------------------------------
(* Memory and rows of the versions, as in M1SpecsProofs for the sessions.  *)
VersionOwes(t) == /\ req[t].at = "save" => version[req[t].ver] = req[t].rec
                  /\ req[t].at = "mem_last" => versionDb[req[t].ver] = req[t].rec

VersionsApart ==
    \A t, u \in Threads : t # u => VersionOwed(req[t]) \cap VersionOwed(req[u]) = {}

VersionsMatch ==
    \A v \in Versions :
        (\A t \in Threads : v \notin VersionOwed(req[t])) => versionDb[v] = version[v]

VersionsInStep == VersionsApart /\ VersionsMatch /\ \A t \in Threads : VersionOwes(t)

EvidenceMatches ==
    \A r \in Runs :
        /\ (\A t \in Threads : req[t] # [at |-> "evidence_save", run |-> r])
              => (r \in evidence <=> r \in evidenceDb)
        /\ (\A t \in Threads : req[t] # [at |-> "outcome_save", run |-> r])
              => (r \in outcome <=> r \in outcomeDb)

LEMMA InStepParts ==
    /\ InStep <=> SpecInStep /\ VersionsInStep /\ EvidenceMatches
    /\ InStep' <=> SpecInStep' /\ VersionsInStep' /\ EvidenceMatches'
    /\ WritesApart' <=> SpecWritesApart' /\ VersionsApart'
BY DEF InStep, WritesApart, RowsMatchAtRest, VersionsInStep, VersionsApart,
   VersionsMatch, VersionOwes, EvidenceMatches, VersionOwed, SpecInStep

Owing == {"save", "mem_last", "invalidate_save"}

LEMMA OwedTyped ==
    ASSUME TypeOK, NEW t \in Threads
    PROVE  /\ req[t].at \in {"save", "mem_last"} =>
                 req[t].ver \in Versions /\ VersionOwed(req[t]) = {req[t].ver}
           /\ req[t].at = "invalidate_save" =>
                 req[t].parent \in Versions /\ VersionOwed(req[t]) = {req[t].parent}
           /\ req[t].at \notin Owing => VersionOwed(req[t]) = {}
BY DEF TypeOK, Request, Writing, Idle, VersionOwed, Owing

(* A request that owes nothing before or after a step that writes nothing. *)
LEMMA NoVersionOwed ==
    ASSUME TypeOK, VersionsInStep, NEW t \in Threads, NEW q,
           req[t].at \notin Owing, q.at \notin Owing, Goes(t, q),
           UNCHANGED <<version, versionDb>>
    PROVE  VersionsInStep'
<1>1. req'[t] = q /\ \A u \in Threads \ {t} : req'[u] = req[u]
  BY DEF TypeOK, Goes
<1>2. \A u \in Threads : VersionOwed(req'[u]) = VersionOwed(req[u])
  BY <1>1 DEF VersionOwed, Owing
<1>3. VersionsApart'
  BY <1>2 DEF VersionsInStep, VersionsApart, VersionOwed
<1>4. VersionsMatch'
  BY <1>2 DEF VersionsInStep, VersionsMatch, VersionOwed
<1>5. \A u \in Threads : VersionOwes(u)'
  BY <1>1 DEF VersionsInStep, VersionOwes, Owing
<1> QED
  BY <1>3, <1>4, <1>5 DEF VersionsInStep

(* One of the two writes of version v: nobody else is between the two.     *)
LEMMA VersionWritten ==
    ASSUME TypeOK, VersionsInStep, VersionsApart', NEW t \in Threads, NEW v \in Versions, NEW q,
           Goes(t, q), VersionOwed(req[t]) \subseteq {v}, VersionOwed(q) \subseteq {v},
           v \in VersionOwed(req[t]) \/ v \in VersionOwed(q),
           \A w \in Versions \ {v} : version'[w] = version[w] /\ versionDb'[w] = versionDb[w],
           v \in VersionOwed(q) \/ versionDb'[v] = version'[v],
           q.at = "save" => version'[q.ver] = q.rec,
           q.at = "mem_last" => versionDb'[q.ver] = q.rec
    PROVE  VersionsInStep'
<1>1. req'[t] = q /\ \A u \in Threads \ {t} : req'[u] = req[u]
  BY DEF TypeOK, Goes
<1>2. ASSUME NEW u \in Threads \ {t} PROVE v \notin VersionOwed(req[u])
  <2>1. VersionOwed(req[t]) \cap VersionOwed(req[u]) = {}
    BY DEF VersionsInStep, VersionsApart
  <2>2. VersionOwed(req'[t]) \cap VersionOwed(req'[u]) = {}
    BY DEF VersionsApart, VersionOwed
  <2> QED
    BY <1>1, <2>1, <2>2
<1>3. VersionsMatch'
  <2> SUFFICES ASSUME NEW w \in Versions, \A u \in Threads : w \notin VersionOwed(req'[u])
               PROVE  versionDb'[w] = version'[w]
    BY DEF VersionsMatch, VersionOwed
  <2>1. CASE w = v
    BY <1>1, <2>1
  <2>2. CASE w # v
    <3>1. \A u \in Threads : w \notin VersionOwed(req[u])
      BY <1>1, <2>2
    <3> QED
      BY <2>2, <3>1 DEF VersionsInStep, VersionsMatch
  <2> QED
    BY <2>1, <2>2
<1>4. ASSUME NEW u \in Threads PROVE VersionOwes(u)'
  <2>1. CASE u = t
    BY <1>1, <2>1 DEF VersionOwes
  <2>2. CASE u # t
    <3>1. VersionOwes(u) /\ req'[u] = req[u]
      BY <1>1, <2>2 DEF VersionsInStep
    <3>2. req[u].at \in {"save", "mem_last"} => req[u].ver \in Versions \ {v}
      BY <1>2, <2>2, OwedTyped
    <3> QED
      BY <3>1, <3>2 DEF VersionOwes
  <2> QED
    BY <2>1, <2>2
<1> QED
  BY <1>3, <1>4 DEF VersionsInStep

LEMMA VersionsStayInStep ==
    ASSUME ServiceInv, VersionsInStep, [Next]_vars, VersionsApart'
    PROVE  VersionsInStep'
<1>t. TypeOK /\ version \in [Versions -> Version \cup {None}]
      /\ versionDb \in [Versions -> Version \cup {None}]
  BY DEF ServiceInv, TypeOK
<1>1. ASSUME NEW t \in Threads, InvalidateMem(t) PROVE VersionsInStep'
  <2> DEFINE q == [at |-> "invalidate_save", spec |-> req[t].spec, parent |-> req[t].parent]
  <2>1. req[t].parent \in Versions
    BY <1>t, <1>1 DEF InvalidateMem, TypeOK, Request, Writing, Idle
  <2>2. VersionOwed(req[t]) = {} /\ VersionOwed(q) = {req[t].parent} /\ q.at = "invalidate_save"
    BY <1>1 DEF InvalidateMem, VersionOwed
  <2>3. Goes(t, q) /\ UNCHANGED versionDb /\ \A w \in Versions \ {req[t].parent} : version'[w] = version[w]
    BY <1>1, <1>t DEF InvalidateMem, PutMem
  <2> HIDE DEF q
  <2> QED
    BY <1>t, <2>1, <2>2, <2>3, VersionWritten
<1>2. ASSUME NEW t \in Threads, InvalidateSave(t) PROVE VersionsInStep'
  <2> DEFINE q == [at |-> "create", spec |-> req[t].spec, parent |-> req[t].parent]
  <2>1. req[t].parent \in Versions /\ VersionOwed(req[t]) = {req[t].parent}
    BY <1>t, <1>2, OwedTyped DEF InvalidateSave
  <2>2. VersionOwed(q) = {} /\ q.at = "create"
    BY DEF VersionOwed
  <2>3. /\ Goes(t, q) /\ UNCHANGED version /\ versionDb'[req[t].parent] = version[req[t].parent]
        /\ \A w \in Versions \ {req[t].parent} : versionDb'[w] = versionDb[w]
    BY <1>2, <1>t, <2>1 DEF InvalidateSave, PutDb
  <2> HIDE DEF q
  <2> QED
    BY <1>t, <2>1, <2>2, <2>3, VersionWritten
<1>3. ASSUME NEW t \in Threads, NEW v \in Versions, CreateVersion(t, v) PROVE VersionsInStep'
  <2> DEFINE rec == NewVersion(req[t].spec, req[t].parent)
             q == [at |-> "save", ver |-> v, rec |-> rec]
  <2>1. VersionOwed(req[t]) = {} /\ VersionOwed(q) = {v} /\ q.at = "save" /\ q.ver = v /\ q.rec = rec
    BY <1>3 DEF CreateVersion, VersionOwed
  <2>2. /\ Goes(t, q) /\ UNCHANGED versionDb /\ version'[v] = rec
        /\ \A w \in Versions \ {v} : version'[w] = version[w]
    BY <1>3, <1>t DEF CreateVersion, PutMem
  <2> HIDE DEF q, rec
  <2> QED
    BY <1>t, <2>1, <2>2, VersionWritten
<1>4. ASSUME NEW t \in Threads, MemFirst(t) \/ SaveFirst(t) PROVE VersionsInStep'
  <2> DEFINE v == req[t].ver
             q == [req[t] EXCEPT !.at = IF req[t].at = "mem" THEN "save" ELSE "mem_last"]
  <2>1. req[t].at \in {"mem", "save_first"} /\ v \in Versions /\ VersionOwed(req[t]) = {}
    BY <1>t, <1>4, WritingShape DEF MemFirst, SaveFirst, TypeOK, Writing, VersionOwed
  <2>2. req[t] = [at |-> req[t].at, ver |-> v, rec |-> req[t].rec]
    BY <1>t, <2>1, WritingShape DEF TypeOK, Writing
  <2>3. /\ q.ver = v /\ q.rec = req[t].rec
        /\ q.at = IF req[t].at = "mem" THEN "save" ELSE "mem_last"
    BY <2>2
  <2>4. Goes(t, q)
    BY <1>4 DEF MemFirst, SaveFirst
  <2>5. VersionOwed(q) = {v}
    BY <2>1, <2>3 DEF VersionOwed
  <2>6. /\ q.at = "save" => version'[v] = q.rec
        /\ q.at = "mem_last" => versionDb'[v] = q.rec
        /\ \A w \in Versions \ {v} : version'[w] = version[w] /\ versionDb'[w] = versionDb[w]
    BY <1>t, <1>4, <2>1, <2>3 DEF MemFirst, SaveFirst, PutMem, PutDb
  <2> HIDE DEF q
  <2> QED
    BY <1>t, <2>1, <2>3, <2>4, <2>5, <2>6, VersionWritten
<1>5. ASSUME NEW t \in Threads, MemLast(t) \/ SaveLast(t) PROVE VersionsInStep'
  <2> DEFINE v == req[t].ver
  <2>1. req[t].at \in {"mem_last", "save"} /\ v \in Versions /\ VersionOwed(req[t]) = {v}
    BY <1>t, <1>5, OwedTyped DEF MemLast, SaveLast
  <2>2. Goes(t, Idle) /\ VersionOwed(Idle) = {} /\ Idle.at = "idle"
    BY <1>5 DEF MemLast, SaveLast, Done, VersionOwed, Idle
  <2>3. VersionOwes(t)
    BY DEF VersionsInStep
  <2>4. /\ versionDb'[v] = version'[v]
        /\ \A w \in Versions \ {v} : version'[w] = version[w] /\ versionDb'[w] = versionDb[w]
    BY <1>t, <1>5, <2>1, <2>3 DEF MemLast, SaveLast, PutMem, PutDb, VersionOwes
  <2> QED
    BY <1>t, <2>1, <2>2, <2>4, VersionWritten
<1>6. ASSUME NEW t \in Threads, Arrival(t) PROVE VersionsInStep'
  <2>1. req[t].at \notin Owing /\ UNCHANGED <<version, versionDb>>
    <3>1. req[t] = Idle
      BY <1>6 DEF Arrival, Arrives, CreateRoot, EditParent, Build, Poll
    <3>2. UNCHANGED <<version, versionDb>>
      BY <1>6 DEF Arrival, CreateRoot, EditParent, Build, Poll
    <3> QED
      BY <3>1, <3>2 DEF Idle, Owing
  <2>2. \E q : Goes(t, q) /\ q.at \notin Owing
    <3>1. ASSUME NEW s \in Specs, CreateRoot(t, s) PROVE \E q : Goes(t, q) /\ q.at \notin Owing
      BY <3>1 DEF CreateRoot, Owing
    <3>2. ASSUME NEW v \in Versions, EditParent(t, v) PROVE \E q : Goes(t, q) /\ q.at \notin Owing
      BY <3>2 DEF EditParent, Owing
    <3>3. ASSUME NEW v \in Versions, NEW k \in Kinds, Build(t, k, v) PROVE \E q : Goes(t, q) /\ q.at \notin Owing
      BY <3>3 DEF Build, Owing
    <3>4. ASSUME NEW r \in Runs, NEW u \in Users, Poll(t, r, u) PROVE \E q : Goes(t, q) /\ q.at \notin Owing
      BY <3>4 DEF Poll, Owing
    <3> QED
      BY <1>6, <3>1, <3>2, <3>3, <3>4 DEF Arrival
  <2> QED
    BY <1>t, <2>1, <2>2, NoVersionOwed
<1>7. ASSUME NEW t \in Threads, CreateRefused(t) \/ CallFails(t) \/ RecordOwner(t)
                                \/ EvidenceTaken(t) \/ EvidenceSave(t) \/ OutcomeSave(t)
                                \/ \E r \in Runs : SubmitReplyLost(t, r)
      PROVE  VersionsInStep'
  <2>1. req[t].at \notin Owing /\ UNCHANGED <<version, versionDb>> /\ Goes(t, Idle)
    BY <1>7 DEF CreateRefused, CallFails, RecordOwner, EvidenceTaken, EvidenceSave, OutcomeSave,
       SubmitReplyLost, Owing, Done
  <2>2. Idle.at \notin Owing
    BY DEF Idle, Owing
  <2> QED
    BY <1>t, <2>1, <2>2, NoVersionOwed
<1>8. ASSUME NEW t \in Threads, MarkRunning(t) PROVE VersionsInStep'
  <2> DEFINE q == [at |-> IF req[t].kind = "verify" THEN "save_first" ELSE "mem", ver |-> req[t].ver,
                   rec |-> Marked(version[req[t].ver], req[t].kind, "running", req[t].run)]
  <2>1. q.at \notin Owing /\ req[t].at \notin Owing /\ Goes(t, q) /\ UNCHANGED <<version, versionDb>>
    BY <1>8 DEF MarkRunning, Owing
  <2> QED
    BY <1>t, <2>1, NoVersionOwed
<1>9. ASSUME NEW t \in Threads, Observe(t) \/ Record(t) \/ Fetch(t) \/ \E r \in Runs : Submit(t, r)
       PROVE  VersionsInStep'
  <2>1. req[t].at \notin Owing /\ UNCHANGED <<version, versionDb>>
    BY <1>9 DEF Observe, Record, Fetch, Submit, Owing
  <2>2. Idle.at \notin Owing
    BY DEF Idle, Owing
  <2>3. \E q : Goes(t, q) /\ q.at \notin Owing
    <3>1. ASSUME Observe(t) PROVE \E q : Goes(t, q) /\ q.at \notin Owing
      <4>1. CASE \E v \in Versions, k \in Checks :
                    Goes(t, [at |-> "record", kind |-> k, ver |-> v, run |-> req[t].run,
                             status |-> req[t].status])
        BY <4>1 DEF Owing
      <4>2. CASE Goes(t, [at |-> "fetch", run |-> req[t].run]) \/ Goes(t, Idle)
        BY <2>2, <4>2 DEF Owing
      <4> QED
        BY <3>1, <4>1, <4>2 DEF Observe
    <3>2. ASSUME Record(t) PROVE \E q : Goes(t, q) /\ q.at \notin Owing
      BY <2>2, <3>2 DEF Record, Owing
    <3>3. ASSUME Fetch(t) PROVE \E q : Goes(t, q) /\ q.at \notin Owing
      BY <2>2, <3>3 DEF Fetch, Owing
    <3>4. ASSUME NEW r \in Runs, Submit(t, r) PROVE \E q : Goes(t, q) /\ q.at \notin Owing
      BY <3>4 DEF Submit, Owing
    <3> QED
      BY <1>9, <3>1, <3>2, <3>3, <3>4
  <2> QED
    BY <1>t, <2>1, <2>3, NoVersionOwed
<1>10. ASSUME NEW t \in Threads, EvidenceMem(t) \/ OutcomeMem(t) PROVE VersionsInStep'
  <2> DEFINE q == [req[t] EXCEPT !.at = IF req[t].at = "evidence_mem" THEN "evidence_save" ELSE "outcome_save"]
  <2>1. req[t].at \in {"evidence_mem", "outcome_mem"} /\ Goes(t, q) /\ UNCHANGED <<version, versionDb>>
    BY <1>10 DEF EvidenceMem, OutcomeMem
  <2>2. req[t] = [at |-> req[t].at, run |-> req[t].run]
    BY <1>t, <2>1 DEF TypeOK, Request, Writing, Idle
  <2>3. q.at \in {"evidence_save", "outcome_save"}
    BY <2>2
  <2>4. q.at \notin Owing /\ req[t].at \notin Owing
    BY <2>1, <2>3 DEF Owing
  <2> HIDE DEF q
  <2> QED
    BY <1>t, <2>1, <2>4, NoVersionOwed
<1>11. CASE Restart
  <2>1. \A t \in Threads : req'[t] = Idle
    BY <1>11 DEF Restart
  <2> QED
    BY <1>11, <2>1 DEF Restart, VersionsInStep, VersionsApart, VersionsMatch, VersionOwes, VersionOwed, Idle
<1>12. CASE UNCHANGED <<version, versionDb, req>>
  BY <1>12 DEF VersionsInStep, VersionsApart, VersionsMatch, VersionOwes, VersionOwed
<1> QED
  BY <1>1, <1>2, <1>3, <1>4, <1>5, <1>6, <1>11, <1>12, <1>7, <1>8, <1>9, <1>10
  DEF Next, Serve, OnSpec, RunEnds, vars

-----------------------------------------------------------------------------
(* Evidence and outcomes: one more run in memory, the save that is owed    *)
(* for it, and one more row.                                               *)
LEMMA EvidenceMoves ==
    ASSUME ServiceInv, [Next]_vars, ~Restart
    PROVE  /\ \A r \in Runs : /\ r \in evidence' =>
                                    \/ r \in evidence
                                    \/ \E t \in Threads : req'[t] = [at |-> "evidence_save", run |-> r]
                              /\ r \in outcome' =>
                                    \/ r \in outcome
                                    \/ \E t \in Threads : req'[t] = [at |-> "outcome_save", run |-> r]
           /\ evidenceDb \subseteq evidenceDb' /\ outcomeDb \subseteq outcomeDb'
           /\ \A t \in Threads :
                 /\ req[t].at = "evidence_save" => req'[t] = req[t] \/ req[t].run \in evidenceDb'
                 /\ req[t].at = "outcome_save" => req'[t] = req[t] \/ req[t].run \in outcomeDb'
<1>t. req \in [Threads -> Request]
  BY DEF ServiceInv, TypeOK
<1>1. ASSUME NEW t \in Threads, EvidenceMem(t)
      PROVE  /\ evidence' = evidence \cup {req[t].run} /\ outcome' = outcome
             /\ req'[t] = [at |-> "evidence_save", run |-> req[t].run]
  <2>1. req[t] = [at |-> "evidence_mem", run |-> req[t].run]
    BY <1>t, <1>1 DEF EvidenceMem, Request, Writing, Idle
  <2> QED
    BY <1>t, <1>1, <2>1 DEF EvidenceMem, Goes
<1>2. ASSUME NEW t \in Threads, OutcomeMem(t)
      PROVE  /\ outcome' = outcome \cup {req[t].run} /\ evidence' = evidence
             /\ req'[t] = [at |-> "outcome_save", run |-> req[t].run]
  <2>1. req[t] = [at |-> "outcome_mem", run |-> req[t].run]
    BY <1>t, <1>2 DEF OutcomeMem, Request, Writing, Idle
  <2> QED
    BY <1>t, <1>2, <2>1 DEF OutcomeMem, Goes
<1>3. UNCHANGED <<evidence, outcome>> \/ \E t \in Threads : EvidenceMem(t) \/ OutcomeMem(t)
  BY ZenonT(60) DEF Next, Arrival, Serve, vars, gdsVars, OnSpec, CreateRoot,
         EditParent, InvalidateMem, InvalidateSave, CreateRefused,
         CreateVersion, Build, Submit, SubmitReplyLost, CallFails, MarkRunning,
         SaveFirst, MemLast, MemFirst, SaveLast, RecordOwner, Poll, Observe,
         Record, Fetch, EvidenceTaken, EvidenceSave, OutcomeSave, RunEnds
<1>4. \/ UNCHANGED <<evidenceDb, outcomeDb>>
      \/ \E t \in Threads : EvidenceSave(t) \/ OutcomeSave(t)
  BY ZenonT(60) DEF Next, Arrival, Serve, vars, gdsVars, OnSpec, CreateRoot,
         EditParent, InvalidateMem, InvalidateSave, CreateRefused,
         CreateVersion, Build, Submit, SubmitReplyLost, CallFails, MarkRunning,
         SaveFirst, MemLast, MemFirst, SaveLast, RecordOwner, Poll, Observe,
         Record, Fetch, EvidenceMem, EvidenceTaken, OutcomeMem, RunEnds
<1>5. \A r \in Runs : /\ r \in evidence' =>
                            \/ r \in evidence
                            \/ \E t \in Threads : req'[t] = [at |-> "evidence_save", run |-> r]
                      /\ r \in outcome' =>
                            \/ r \in outcome
                            \/ \E t \in Threads : req'[t] = [at |-> "outcome_save", run |-> r]
  <2>1. CASE UNCHANGED <<evidence, outcome>>
    BY <2>1
  <2>2. ASSUME NEW t \in Threads, EvidenceMem(t) \/ OutcomeMem(t)
        PROVE  \A r \in Runs : /\ r \in evidence' =>
                                     \/ r \in evidence
                                     \/ \E u \in Threads : req'[u] = [at |-> "evidence_save", run |-> r]
                               /\ r \in outcome' =>
                                     \/ r \in outcome
                                     \/ \E u \in Threads : req'[u] = [at |-> "outcome_save", run |-> r]
    BY <1>1, <1>2, <2>2
  <2> QED
    BY <1>3, <2>1, <2>2
<1>6. evidenceDb \subseteq evidenceDb' /\ outcomeDb \subseteq outcomeDb'
  BY <1>4 DEF EvidenceSave, OutcomeSave
<1>7. ASSUME NEW t \in Threads, req[t].at \in {"evidence_save", "outcome_save"}
      PROVE  \/ req'[t] = req[t]
             \/ req[t].at = "evidence_save" /\ req[t].run \in evidenceDb'
             \/ req[t].at = "outcome_save" /\ req[t].run \in outcomeDb'
  <2>1. ASSUME Serve(t) PROVE EvidenceSave(t) \/ OutcomeSave(t)
    BY <1>7, <2>1 DEF Serve, InvalidateMem, InvalidateSave, CreateRefused, CreateVersion, Submit,
       SubmitReplyLost, CallFails, MarkRunning, SaveFirst, MemLast, MemFirst, SaveLast,
       RecordOwner, Observe, Record, Fetch, EvidenceMem, EvidenceTaken, OutcomeMem
  <2>2. ~Arrival(t)
    <3>1. req[t] # Idle
      BY <1>7 DEF Idle
    <3> QED
      BY <3>1 DEF Arrival, Arrives, CreateRoot, EditParent, Build, Poll
  <2>3. ASSUME NEW u \in Threads \ {t}, Arrival(u) \/ Serve(u) PROVE req'[t] = req[t]
    <3>1. \E q : Goes(u, q)
      <4>1. ASSUME Arrival(u) PROVE \E q : Goes(u, q)
        BY <4>1 DEF Arrival, CreateRoot, EditParent, Build, Poll
      <4>2. ASSUME Serve(u) PROVE \E q : Goes(u, q)
        BY <4>2 DEF Serve, InvalidateMem, InvalidateSave, CreateRefused, CreateVersion, Submit,
           SubmitReplyLost, CallFails, MarkRunning, SaveFirst, MemLast, MemFirst, SaveLast,
           RecordOwner, Observe, Record, Fetch, EvidenceMem, EvidenceTaken, EvidenceSave,
           OutcomeMem, OutcomeSave, Done
      <4> QED
        BY <2>3, <4>1, <4>2
    <3> QED
      BY <1>t, <3>1 DEF Goes
  <2>4. CASE EvidenceSave(t) \/ OutcomeSave(t)
    BY <2>4 DEF EvidenceSave, OutcomeSave
  <2>5. CASE UNCHANGED req
    BY <2>5
  <2> QED
    BY <2>1, <2>2, <2>3, <2>4, <2>5 DEF Next, OnSpec, RunEnds, vars
<1> QED
  BY <1>5, <1>6, <1>7

LEMMA EvidenceStaysInStep ==
    ASSUME ServiceInv, ServiceInv', EvidenceMatches, [Next]_vars
    PROVE  EvidenceMatches'
<1>1. evidenceDb' \subseteq evidence' /\ outcomeDb' \subseteq outcome'
  BY DEF ServiceInv, RowsAreServed
<1>2. CASE Restart
  BY <1>2 DEF Restart, EvidenceMatches
<1>3. ASSUME ~Restart, NEW r \in Runs
      PROVE  /\ r \in evidence' \ evidenceDb' =>
                   \E t \in Threads : req'[t] = [at |-> "evidence_save", run |-> r]
             /\ r \in outcome' \ outcomeDb' =>
                   \E t \in Threads : req'[t] = [at |-> "outcome_save", run |-> r]
  <2>1. ASSUME r \in evidence' \ evidenceDb'
        PROVE  \E t \in Threads : req'[t] = [at |-> "evidence_save", run |-> r]
    <3>1. r \in evidence \/ \E t \in Threads : req'[t] = [at |-> "evidence_save", run |-> r]
      BY <1>3, <2>1, EvidenceMoves
    <3>2. ASSUME r \in evidence PROVE \E t \in Threads : req'[t] = [at |-> "evidence_save", run |-> r]
      <4>1. r \notin evidenceDb
        BY <1>3, <2>1, EvidenceMoves
      <4>2. PICK t \in Threads : req[t] = [at |-> "evidence_save", run |-> r]
        BY <3>2, <4>1 DEF EvidenceMatches
      <4>3. req[t].at = "evidence_save" /\ req[t].run = r
        BY <4>2
      <4>4. req'[t] = req[t]
        BY <1>3, <2>1, <4>3, EvidenceMoves
      <4> QED
        BY <4>2, <4>4
    <3> QED
      BY <3>1, <3>2
  <2>2. ASSUME r \in outcome' \ outcomeDb'
        PROVE  \E t \in Threads : req'[t] = [at |-> "outcome_save", run |-> r]
    <3>1. r \in outcome \/ \E t \in Threads : req'[t] = [at |-> "outcome_save", run |-> r]
      BY <1>3, <2>2, EvidenceMoves
    <3>2. ASSUME r \in outcome PROVE \E t \in Threads : req'[t] = [at |-> "outcome_save", run |-> r]
      <4>1. r \notin outcomeDb
        BY <1>3, <2>2, EvidenceMoves
      <4>2. PICK t \in Threads : req[t] = [at |-> "outcome_save", run |-> r]
        BY <3>2, <4>1 DEF EvidenceMatches
      <4>3. req[t].at = "outcome_save" /\ req[t].run = r
        BY <4>2
      <4>4. req'[t] = req[t]
        BY <1>3, <2>2, <4>3, EvidenceMoves
      <4> QED
        BY <4>2, <4>4
    <3> QED
      BY <3>1, <3>2
  <2> QED
    BY <2>1, <2>2
<1> QED
  BY <1>1, <1>2, <1>3 DEF EvidenceMatches

LEMMA StaysInStep ==
    ASSUME ServiceInv, ServiceInv', SpecInv, InStep, WritesApart', [Next]_vars
    PROVE  InStep'
<1>1. SpecInStep /\ VersionsInStep /\ EvidenceMatches /\ SpecWritesApart' /\ VersionsApart'
  BY InStepParts
<1>2. SpecInStep'
  BY <1>1, SpecHalfStep, SpecStaysInStep
<1>3. VersionsInStep' /\ EvidenceMatches'
  BY <1>1, VersionsStayInStep, EvidenceStaysInStep
<1> QED
  BY <1>2, <1>3, InStepParts

LEMMA StartsInStep == Init => InStep
<1> SUFFICES ASSUME Init PROVE InStep
  OBVIOUS
<1>1. SpecInStep
  BY SpecStartsInStep DEF Init
<1>2. VersionsInStep /\ EvidenceMatches
  BY DEF Init, VersionsInStep, VersionsApart, VersionsMatch, VersionOwes, VersionOwed, EvidenceMatches, Idle
<1> QED
  BY <1>1, <1>2, InStepParts

(* A row parts from memory for good only when two requests are between the *)
(* two writes of its record, for any number of threads and crashes.        *)
THEOREM OverlapAlone == Spec => PartedByOverlapOnly
<1>1. ServiceInv /\ ServiceInv' /\ SpecInv /\ [Next]_vars => [InStep /\ WritesApart' => InStep']_vars
  BY StaysInStep
<1>2. Spec => []SpecInv
  BY SpecHalf, SpecInvariant, PTL
<1> QED
  BY <1>1, <1>2, ServiceInvariant, PTL DEF Spec, PartedByOverlapOnly

(* So while no two requests are between the two writes of a record, memory *)
(* and row of every record at rest agree.                                  *)
THEOREM RowsMatch == Spec /\ []WritesApart => []RowsMatchAtRest
<1>1. InStep => RowsMatchAtRest
  BY DEF InStep
<1>2. InStep /\ WritesApart' /\ [InStep /\ WritesApart' => InStep']_vars => InStep'
  <2> SUFFICES ASSUME InStep, UNCHANGED vars PROVE InStep'
    OBVIOUS
  <2>1. SpecInStep'
    BY DEF vars, specVars, InStep, SpecInStep, SpecWritesApart, SpecRowsMatch, SessionOwed, PackageOwed
  <2>2. VersionsInStep' /\ EvidenceMatches'
    BY InStepParts DEF vars, gdsVars, VersionsInStep, VersionsApart, VersionsMatch, VersionOwes, VersionOwed,
       EvidenceMatches
  <2> QED
    BY <2>1, <2>2, InStepParts
<1> QED
  BY <1>1, <1>2, StartsInStep, OverlapAlone, PTL DEF Spec, PartedByOverlapOnly

(* With one thread for specs and one for versions no two requests overlap  *)
(* on a record, and memory and row of every record at rest agree (run      *)
(* "whole" of MCM1Service is such an instance).                            *)
THEOREM OneByOneRowsMatch ==
    ASSUME \A t, u \in Threads : t = u, \A t, u \in SpecThreads : t = u
    PROVE  Spec => []RowsMatchAtRest
<1>1. WritesApart
  BY DEF WritesApart, SpecWritesApart
<1> QED  BY <1>1, RowsMatch, PTL
=============================================================================
