----------------------------- MODULE M1Service -----------------------------
(***************************************************************************)
(* The RTL half of the M1 service, on top of M1Specs: RTL versions, their  *)
(* verification and simulation, submission of RTL-to-GDS runs to the v2    *)
(* execution service, observation of runs and registration of evidence     *)
(* (apps/m1_rtl_to_gds/src/openroad_app_m1/{service,server,store}.py).     *)
(*                                                                         *)
(* As in M1Specs every record lives in memory and in a SQLite row, request *)
(* threads share the dictionaries without a lock, and a request in flight  *)
(* is a record naming its next step and carrying its local values.  A      *)
(* record that was read before a v2 call or another thread's write is such *)
(* a local value: it is stale by the time it is written back.              *)
(*                                                                         *)
(* v2 is external: it owns the runs.  Submitting with idempotent=1 returns *)
(* the run already admitted for the same task id.                          *)
(***************************************************************************)
EXTENDS M1Specs

CONSTANTS
    Versions,     \* RTL version ids; uuid4 hands each out once
    Runs,         \* v2 run ids
    Users,        \* v2 identities
    OwnerOf,      \* the identity that created each spec
    Threads,      \* HTTP threads serving requests on versions and runs
    Endpoints,    \* the endpoints the clients of an instance call
    Endings       \* the terminal statuses v2 runs of an instance end in

Checks == {"verify", "sim"}
Kinds == Checks \cup {"gds"}
AllEndpoints == {"create", "edit", "poll"} \cup Kinds

(* The statuses observe_run acts on.  A v2 run ends in one of them: "lost" *)
(* is the end of an attempt, whose run then fails (docs/DATA_MODEL.md).    *)
Observed == {"succeeded", "failed", "cancelled", "timed_out"}
RunStatus == {"active"} \cup Observed

CheckStatus == {"not_run", "running", "passed", "failed", "invalidated"}

(* An RTL version, with the verdict and the run of each check.             *)
Version ==
    [spec: Specs, parent: Versions \cup {None},
     status: [Checks -> CheckStatus], run: [Checks -> Runs \cup {None}]]

(* A run carries the task it was submitted with; "complete" says whether   *)
(* the artifacts and metrics it leaves behind satisfy record_gds_evidence. *)
Run == [kind: Kinds, ver: Versions, spec: Specs, status: RunStatus,
        complete: BOOLEAN]

ASSUME ServiceAssumption ==
    /\ OwnerOf \in [Specs -> Users]
    /\ Endpoints \subseteq AllEndpoints
    /\ Endings \subseteq Observed
    /\ None \notin Runs \cup Versions \cup Users \cup Version \cup Run

VARIABLES
    version,      \* _versions
    versionDb,    \* table m1_rtl_versions
    runOwnerDb,   \* table m1_run_owners, which has no copy in memory
    evidence,     \* _evidence: the runs with registered GDS evidence
    evidenceDb,   \* table m1_evidence
    outcome,      \* _run_outcomes: the runs found gds_incomplete
    outcomeDb,    \* table m1_run_outcomes
    runs,         \* v2: the task and status of each admitted run
    req           \* the request each thread is serving

gdsVars == <<runOwnerDb, evidence, evidenceDb, outcome, outcomeDb>>
vars == <<specVars, version, versionDb, gdsVars, runs, req>>

-----------------------------------------------------------------------------
NewVersion(s, p) ==
    [spec |-> s, parent |-> p, status |-> [k \in Checks |-> "not_run"],
     run |-> [k \in Checks |-> None]]

(* What create_rtl_version makes of the parent it read. *)
Invalidated(rec) ==
    [rec EXCEPT !.status = [k \in Checks |-> "invalidated"],
                !.run = [k \in Checks |-> None]]

(* What a submission and a recorded result make of the version they read. *)
Marked(rec, k, status, r) ==
    [rec EXCEPT !.status[k] = status, !.run[k] = r]

(* The steps of a request about to write a version record it read earlier. *)
Writing == {"mem", "save", "save_first", "mem_last"}

Request ==
    {Idle}
    \cup [at: {"create"}, spec: Specs, parent: Versions \cup {None}]
    \cup [at: {"invalidate_mem"}, spec: Specs, parent: Versions, rec: Version]
    \cup [at: {"invalidate_save"}, spec: Specs, parent: Versions]
    \cup [at: {"submit"}, kind: Kinds, ver: Versions]
    \cup [at: {"marking"}, kind: Checks, ver: Versions, run: Runs]
    \cup [at: {"owner"}, ver: Versions, run: Runs]
    \cup [at: Writing, ver: Versions, rec: Version]
    \cup [at: {"observe"}, user: Users, run: Runs, status: Observed]
    \cup [at: {"record"}, kind: Checks, ver: Versions, run: Runs,
          status: Observed]
    \cup [at: {"fetch", "evidence_mem", "evidence_save",
               "outcome_mem", "outcome_save"}, run: Runs]

TypeOK ==
    /\ SpecTypeOK
    /\ version \in [Versions -> Version \cup {None}]
    /\ versionDb \in [Versions -> Version \cup {None}]
    /\ runOwnerDb \in [Runs -> Users \cup {None}]
    /\ evidence \subseteq Runs /\ evidenceDb \subseteq Runs
    /\ outcome \subseteq Runs /\ outcomeDb \subseteq Runs
    /\ runs \in [Runs -> Run \cup {None}]
    /\ req \in [Threads -> Request]

Init ==
    /\ SpecInit
    /\ version = [v \in Versions |-> None]
    /\ versionDb = [v \in Versions |-> None]
    /\ runOwnerDb = [r \in Runs |-> None]
    /\ evidence = {} /\ evidenceDb = {}
    /\ outcome = {} /\ outcomeDb = {}
    /\ runs = [r \in Runs |-> None]
    /\ req = [t \in Threads |-> Idle]

-----------------------------------------------------------------------------
Arrives(t, endpoint) == req[t] = Idle /\ endpoint \in Endpoints
Goes(t, next) == req' = [req EXCEPT ![t] = next]
Done(t) == Goes(t, Idle)

PutMem(v, rec) == version' = [version EXCEPT ![v] = rec]
PutDb(v, rec) == versionDb' = [versionDb EXCEPT ![v] = rec]

Frozen(s) == session[s] = "frozen"
RunFor(k, v) ==
    {r \in Runs : runs[r] # None /\ runs[r].kind = k /\ runs[r].ver = v}

(* A version id nobody has used: not in memory, and in no task v2 was given. *)
Fresh(v) == version[v] = None /\ \A k \in Kinds : RunFor(k, v) = {}

-----------------------------------------------------------------------------
(* POST /specs/{id}/rtl and /generate.  The source is staged in v2 first;  *)
(* create_rtl_version then checks the spec.                                *)
CreateRoot(t, s) ==
    /\ Arrives(t, "create")
    /\ Frozen(s)
    /\ Goes(t, [at |-> "create", spec |-> s, parent |-> None])
    /\ UNCHANGED <<specVars, version, versionDb, gdsVars, runs>>

(* An edit names its parent, which is read here and invalidated ...        *)
EditParent(t, p) ==
    /\ Arrives(t, "edit")
    /\ version[p] # None
    /\ Frozen(version[p].spec)
    /\ Goes(t, [at |-> "invalidate_mem", spec |-> version[p].spec,
                parent |-> p, rec |-> version[p]])
    /\ UNCHANGED <<specVars, version, versionDb, gdsVars, runs>>

(* ... in memory, from the record that was read ...                        *)
InvalidateMemOnly(t) ==    \* mutant: the parent's row is not written
    /\ req[t].at = "invalidate_mem"
    /\ PutMem(req[t].parent, Invalidated(req[t].rec))
    /\ Goes(t, [at |-> "create", spec |-> req[t].spec,
                parent |-> req[t].parent])
    /\ UNCHANGED <<specVars, versionDb, gdsVars, runs>>

InvalidateMem(t) ==
    /\ req[t].at = "invalidate_mem"
    /\ PutMem(req[t].parent, Invalidated(req[t].rec))
    /\ Goes(t, [at |-> "invalidate_save", spec |-> req[t].spec,
                parent |-> req[t].parent])
    /\ UNCHANGED <<specVars, versionDb, gdsVars, runs>>

(* ... and in its row, from what memory holds by then.                     *)
InvalidateSave(t) ==
    /\ req[t].at = "invalidate_save"
    /\ PutDb(req[t].parent, version[req[t].parent])
    /\ Goes(t, [at |-> "create", spec |-> req[t].spec,
                parent |-> req[t].parent])
    /\ UNCHANGED <<specVars, version, gdsVars, runs>>

(* Only now is the new version built: validate() may refuse the generator  *)
(* name, with the parent already invalidated.                              *)
CreateRefused(t) ==
    /\ req[t].at = "create"
    /\ Done(t)
    /\ UNCHANGED <<specVars, version, versionDb, gdsVars, runs>>

CreateVersionRowOnly(t, v) ==    \* mutant: memory does not get the version
    /\ req[t].at = "create"
    /\ Fresh(v)
    /\ Goes(t, [at |-> "save", ver |-> v,
                rec |-> NewVersion(req[t].spec, req[t].parent)])
    /\ UNCHANGED <<specVars, version, versionDb, gdsVars, runs>>

CreateVersion(t, v) ==
    /\ req[t].at = "create"
    /\ Fresh(v)
    /\ LET rec == NewVersion(req[t].spec, req[t].parent) IN
       /\ PutMem(v, rec)
       /\ Goes(t, [at |-> "save", ver |-> v, rec |-> rec])
    /\ UNCHANGED <<specVars, versionDb, gdsVars, runs>>

-----------------------------------------------------------------------------
(* What build_verification_request, build_simulation_request and           *)
(* build_rtl_to_gds_request demand before there is a task to submit.       *)
Packaged(rec) == Frozen(rec.spec) /\ package[rec.spec] # None

VerifyGate(rec) == Packaged(rec)
SimGateUnverified(rec) == Packaged(rec)    \* mutant: no verdict demanded

SimGate(rec) == Packaged(rec) /\ rec.status["verify"] = "passed"
GdsGateUnsimulated(rec) ==    \* mutant: simulation not demanded
    Packaged(rec) /\ rec.status["verify"] = "passed"

GdsGate(rec) ==
    /\ Packaged(rec)
    /\ rec.status["verify"] = "passed"
    /\ rec.status["sim"] = "passed"

(* POST /rtl/{id}/verify, /simulate, /gds: the request is built ...        *)
Build(t, k, v) ==
    /\ Arrives(t, k)
    /\ version[v] # None
    /\ CASE k = "verify" -> VerifyGate(version[v])
         [] k = "sim" -> SimGate(version[v])
         [] k = "gds" -> GdsGate(version[v])
    /\ Goes(t, [at |-> "submit", kind |-> k, ver |-> v])
    /\ UNCHANGED <<specVars, version, versionDb, gdsVars, runs>>

(* v2 admits a task: the run of that task id, or a new one.                *)
AdmitAlways(k, v, r) ==    \* mutant: no idempotency key
    /\ runs[r] = None
    /\ runs' = [runs EXCEPT ![r] =
          [kind |-> k, ver |-> v, spec |-> version[v].spec,
           status |-> "active", complete |-> FALSE]]

Admit(k, v, r) ==
    \/ r \in RunFor(k, v) /\ UNCHANGED runs
    \/ /\ RunFor(k, v) = {}
       /\ runs[r] = None
       /\ runs' = [runs EXCEPT ![r] =
             [kind |-> k, ver |-> v, spec |-> version[v].spec,
              status |-> "active", complete |-> FALSE]]

(* ... and submitted under its task id as idempotency key.                 *)
Submit(t, r) ==
    /\ req[t].at = "submit"
    /\ Admit(req[t].kind, req[t].ver, r)
    /\ Goes(t, IF req[t].kind = "gds"
               THEN [at |-> "owner", ver |-> req[t].ver, run |-> r]
               ELSE [at |-> "marking", kind |-> req[t].kind,
                     ver |-> req[t].ver, run |-> r])
    /\ UNCHANGED <<specVars, version, versionDb, gdsVars>>

(* The task reached v2 but the reply did not reach M1: V2Unavailable.      *)
SubmitReplyLost(t, r) ==
    /\ req[t].at = "submit"
    /\ Admit(req[t].kind, req[t].ver, r)
    /\ Done(t)
    /\ UNCHANGED <<specVars, version, versionDb, gdsVars>>

(* v2 did not take the call at all, or refused it.                         *)
CallFails(t) ==
    /\ req[t].at \in {"submit", "fetch"}
    /\ Done(t)
    /\ UNCHANGED <<specVars, version, versionDb, gdsVars, runs>>

(* submit_verification and submit_simulation read the version again, after *)
(* the call, and mark it running.                                          *)
MarkRunning(t) ==
    /\ req[t].at = "marking"
    /\ Goes(t, [at |-> IF req[t].kind = "verify" THEN "save_first" ELSE "mem",
                ver |-> req[t].ver,
                rec |-> Marked(version[req[t].ver], req[t].kind, "running",
                               req[t].run)])
    /\ UNCHANGED <<specVars, version, versionDb, gdsVars, runs>>

(* submit_verification writes the row before memory, ...                   *)
SaveFirst(t) ==
    /\ req[t].at = "save_first"
    /\ PutDb(req[t].ver, req[t].rec)
    /\ Goes(t, [req[t] EXCEPT !.at = "mem_last"])
    /\ UNCHANGED <<specVars, version, gdsVars, runs>>

MemLast(t) ==
    /\ req[t].at = "mem_last"
    /\ PutMem(req[t].ver, req[t].rec)
    /\ Done(t)
    /\ UNCHANGED <<specVars, versionDb, gdsVars, runs>>

(* ... everything else writes memory before the row.                       *)
MemFirstUnsaved(t) ==    \* mutant: the row is not written
    /\ req[t].at = "mem"
    /\ PutMem(req[t].ver, req[t].rec)
    /\ Done(t)
    /\ UNCHANGED <<specVars, versionDb, gdsVars, runs>>

MemFirst(t) ==
    /\ req[t].at = "mem"
    /\ PutMem(req[t].ver, req[t].rec)
    /\ Goes(t, [req[t] EXCEPT !.at = "save"])
    /\ UNCHANGED <<specVars, versionDb, gdsVars, runs>>

SaveLast(t) ==
    /\ req[t].at = "save"
    /\ PutDb(req[t].ver, req[t].rec)
    /\ Done(t)
    /\ UNCHANGED <<specVars, version, gdsVars, runs>>

(* submit_rtl_to_gds remembers whose run it is.                            *)
RecordOwner(t) ==
    /\ req[t].at = "owner"
    /\ runOwnerDb' = [runOwnerDb EXCEPT
                         ![req[t].run] = OwnerOf[version[req[t].ver].spec]]
    /\ Done(t)
    /\ UNCHANGED <<specVars, version, versionDb, evidence, evidenceDb,
                   outcome, outcomeDb, runs>>

-----------------------------------------------------------------------------
(* assert_run_owner: the stored owner, else the owner of the version the   *)
(* run is recorded on (a KeyError if its session is gone), else the owner  *)
(* of its evidence.                                                        *)
RecordedOn(r) ==
    {v \in Versions : version[v] # None /\ \E k \in Checks : version[v].run[k] = r}

MayObserveUnowned(u, r) ==    \* mutant: a run without stored owner is open
    runOwnerDb[r] \in {u, None}

MayObserve(u, r) ==
    \/ u = runOwnerDb[r]
    \/ /\ runOwnerDb[r] = None
       /\ \E v \in RecordedOn(r) : /\ session[version[v].spec] # None
                                   /\ u = OwnerOf[version[v].spec]
    \/ /\ runOwnerDb[r] = None /\ RecordedOn(r) = {}
       /\ r \in evidence /\ u = OwnerOf[runs[r].spec]

(* GET /runs/{id}: the caller's right to the run is checked and its status *)
(* read from v2.  A status observe_run ignores changes nothing.            *)
Poll(t, r, u) ==
    /\ Arrives(t, "poll")
    /\ runs[r] # None
    /\ MayObserve(u, r)
    /\ runs[r].status \in Observed
    /\ Goes(t, [at |-> "observe", user |-> u, run |-> r,
                status |-> runs[r].status])
    /\ UNCHANGED <<specVars, version, versionDb, gdsVars, runs>>

(* observe_run looks for the version that is running under this run id.    *)
WaitsForAny(v, k, r) ==    \* mutant: the run id is not compared
    version[v] # None /\ version[v].status[k] = "running"

WaitsFor(v, k, r) ==
    version[v] # None /\ version[v].run[k] = r /\ version[v].status[k] = "running"

Observe(t) ==
    /\ req[t].at = "observe"
    /\ LET r == req[t].run IN
       \/ \E v \in Versions, k \in Checks :
             /\ WaitsFor(v, k, r)
             /\ Goes(t, [at |-> "record", kind |-> k, ver |-> v, run |-> r,
                         status |-> req[t].status])
       \/ /\ \A v \in Versions, k \in Checks : ~WaitsFor(v, k, r)
          /\ Goes(t, IF runs[r].kind = "gds" /\ req[t].status = "succeeded"
                     THEN [at |-> "fetch", run |-> r] ELSE Idle)
    /\ UNCHANGED <<specVars, version, versionDb, gdsVars, runs>>

(* record_verification and record_simulation read the version again and    *)
(* refuse with a 422 when its state no longer allows the result.           *)
RecordableOnce(k, rec) ==    \* mutant: only a version never submitted
    rec.status[k] = "not_run"

Recordable(k, rec) ==
    IF k = "verify" THEN rec.status["verify"] # "invalidated"
                    ELSE rec.status["verify"] = "passed"

Record(t) ==
    /\ req[t].at = "record"
    /\ LET rec == version[req[t].ver]
           verdict == IF req[t].status = "succeeded" THEN "passed" ELSE "failed"
       IN  Goes(t, IF Recordable(req[t].kind, rec)
                   THEN [at |-> "mem", ver |-> req[t].ver,
                         rec |-> Marked(rec, req[t].kind, verdict, req[t].run)]
                   ELSE Idle)
    /\ UNCHANGED <<specVars, version, versionDb, gdsVars, runs>>

-----------------------------------------------------------------------------
(* record_gds_evidence, once the artifacts and metrics have been fetched:  *)
(* what was registered for the run stays; an incomplete run becomes an     *)
(* outcome; a complete one becomes evidence if its version is verified and *)
(* simulated at this moment.                                               *)
FetchAnything(t) ==    \* mutant: artifacts and metrics are not checked
    /\ req[t].at = "fetch"
    /\ Goes(t, [at |-> "evidence_mem", run |-> req[t].run])
    /\ UNCHANGED <<specVars, version, versionDb, gdsVars, runs>>

Fetch(t) ==
    /\ req[t].at = "fetch"
    /\ LET r == req[t].run
           rec == version[runs[r].ver]
           accepted == /\ rec # None
                       /\ session[rec.spec] # None
                       /\ rec.status["verify"] = "passed"
                       /\ rec.status["sim"] = "passed"
       IN  Goes(t, IF r \in evidence \cup outcome THEN Idle
                   ELSE IF ~runs[r].complete
                        THEN [at |-> "outcome_mem", run |-> r]
                   ELSE IF accepted THEN [at |-> "evidence_mem", run |-> r]
                   ELSE Idle)
    /\ UNCHANGED <<specVars, version, versionDb, gdsVars, runs>>

EvidenceMemForgotten(t) ==    \* mutant: memory is not updated
    /\ req[t].at = "evidence_mem"
    /\ Goes(t, [req[t] EXCEPT !.at = "evidence_save"])
    /\ UNCHANGED <<specVars, version, versionDb, gdsVars, runs>>

EvidenceMem(t) ==
    /\ req[t].at = "evidence_mem"
    /\ evidence' = evidence \cup {req[t].run}
    /\ Goes(t, [req[t] EXCEPT !.at = "evidence_save"])
    /\ UNCHANGED <<specVars, version, versionDb, runOwnerDb, evidenceDb,
                   outcome, outcomeDb, runs>>

(* record_evidence refuses a second registration, if it arrives in time.   *)
EvidenceTaken(t) ==
    /\ req[t].at = "evidence_mem"
    /\ req[t].run \in evidence
    /\ Done(t)
    /\ UNCHANGED <<specVars, version, versionDb, gdsVars, runs>>

EvidenceSave(t) ==
    /\ req[t].at = "evidence_save"
    /\ evidenceDb' = evidenceDb \cup {req[t].run}
    /\ Done(t)
    /\ UNCHANGED <<specVars, version, versionDb, runOwnerDb, evidence,
                   outcome, outcomeDb, runs>>

OutcomeMem(t) ==
    /\ req[t].at = "outcome_mem"
    /\ outcome' = outcome \cup {req[t].run}
    /\ Goes(t, [req[t] EXCEPT !.at = "outcome_save"])
    /\ UNCHANGED <<specVars, version, versionDb, runOwnerDb, evidence,
                   evidenceDb, outcomeDb, runs>>

OutcomeSave(t) ==
    /\ req[t].at = "outcome_save"
    /\ outcomeDb' = outcomeDb \cup {req[t].run}
    /\ Done(t)
    /\ UNCHANGED <<specVars, version, versionDb, runOwnerDb, evidence,
                   evidenceDb, outcome, runs>>

-----------------------------------------------------------------------------
(* v2 brings a run to an end.                                              *)
RunEnds(r, status) ==
    /\ runs[r] # None
    /\ runs[r].status = "active"
    /\ \E complete \in BOOLEAN :
          /\ complete => runs[r].kind = "gds" /\ status = "succeeded"
          /\ runs' = [runs EXCEPT ![r].status = status, ![r].complete = complete]
    /\ UNCHANGED <<specVars, version, versionDb, gdsVars, req>>

(* The M1 process stops and a new one loads its database.                  *)
RestartWithoutPackages ==    \* mutant: the packages are not loaded
    /\ session' = sessionDb
    /\ package' = [s \in Specs |-> None]
    /\ specReq' = [t \in SpecThreads |-> Idle]
    /\ version' = versionDb
    /\ evidence' = evidenceDb
    /\ outcome' = outcomeDb
    /\ req' = [t \in Threads |-> Idle]
    /\ UNCHANGED <<sessionDb, packageDb, versionDb, runOwnerDb, evidenceDb,
                   outcomeDb, runs>>

Restart ==
    /\ SpecRestart
    /\ version' = versionDb
    /\ evidence' = evidenceDb
    /\ outcome' = outcomeDb
    /\ req' = [t \in Threads |-> Idle]
    /\ UNCHANGED <<versionDb, runOwnerDb, evidenceDb, outcomeDb, runs>>

(* A step of the specification half.                                       *)
OnSpec(t) ==
    /\ SpecStep(t)
    /\ UNCHANGED <<version, versionDb, gdsVars, runs, req>>

-----------------------------------------------------------------------------
(* A step of a request already being served: it needs nobody's decision.   *)
Serve(t) ==
    \/ InvalidateMem(t) \/ InvalidateSave(t)
    \/ CreateRefused(t) \/ \E v \in Versions : CreateVersion(t, v)
    \/ \E r \in Runs : Submit(t, r) \/ SubmitReplyLost(t, r)
    \/ CallFails(t)
    \/ MarkRunning(t) \/ SaveFirst(t) \/ MemLast(t) \/ MemFirst(t) \/ SaveLast(t)
    \/ RecordOwner(t)
    \/ Observe(t) \/ Record(t) \/ Fetch(t)
    \/ EvidenceMem(t) \/ EvidenceTaken(t) \/ EvidenceSave(t)
    \/ OutcomeMem(t) \/ OutcomeSave(t)

Arrival(t) ==
    \/ \E s \in Specs : CreateRoot(t, s)
    \/ \E v \in Versions : EditParent(t, v)
    \/ \E v \in Versions, k \in Kinds : Build(t, k, v)
    \/ \E r \in Runs, u \in Users : Poll(t, r, u)

Next ==
    \/ \E t \in Threads : Arrival(t) \/ Serve(t)
    \/ \E r \in Runs, status \in Endings : RunEnds(r, status)
    \/ \E t \in SpecThreads : OnSpec(t)
    \/ Restart

Spec == Init /\ [][Next]_vars

(* A thread finishes what it serves, and a client keeps asking about every *)
(* run it submitted (app.js polls it each second until it has ended).      *)
FairSpec ==
    /\ Spec
    /\ \A t \in Threads : WF_vars(Serve(t))
    /\ \A r \in Runs : SF_vars(\E t \in Threads, u \in Users : Poll(t, r, u))

-----------------------------------------------------------------------------
(* Properties.                                                             *)

(* The run behind a recorded verdict.                                      *)
Justifies(r, v, k, status) ==
    /\ r \in RunFor(k, v)
    /\ status = "passed" => runs[r].status = "succeeded"
    /\ status = "failed" => runs[r].status \in Observed \ {"succeeded"}

Earned(v, rec) ==
    \A k \in Checks :
        IF rec.status[k] \in {"running", "passed", "failed"}
        THEN Justifies(rec.run[k], v, k, rec.status[k])
        ELSE rec.run[k] = None

(* Every verdict a version carries - in memory, in its row, or in a record *)
(* some thread is still about to write - names a run of this version and   *)
(* this check that ended accordingly, whatever threads, crashes and lost   *)
(* replies did in between (observe_run, record_verification,               *)
(* record_simulation, submit_verification, submit_simulation).             *)
VerdictsAreEarned ==
    /\ \A v \in Versions :
          /\ version[v] # None => Earned(v, version[v])
          /\ versionDb[v] # None => Earned(v, versionDb[v])
    /\ \A t \in Threads :
          req[t].at \in Writing => Earned(req[t].ver, req[t].rec)

(* A task is one run: clicking again, a lost reply and a restart find the  *)
(* run v2 already has, because the task id is the idempotency key          *)
(* (_submit_task).  No two copies of a version then disagree on a verdict. *)
CopiesOf(v) ==
    ({version[v], versionDb[v]} \ {None})
    \cup {req[t].rec : t \in {u \in Threads :
                                 req[u].at \in Writing /\ req[u].ver = v}}

NoConflictingVerdicts ==
    \A v \in Versions, k \in Checks :
        ~ \E a, b \in CopiesOf(v) :
              a.status[k] = "passed" /\ b.status[k] = "failed"

(* The ladder of the course, "RTL-to-GDS requires passed verification" and *)
(* "... passed simulation" (service.py:332-344): no check is run, not even *)
(* from a stale read, before the one below it has really succeeded.        *)
Succeeded(k, v) == \E r \in RunFor(k, v) : runs[r].status = "succeeded"

LadderRespected ==
    \A r \in Runs : runs[r] # None =>
        /\ runs[r].kind \in {"sim", "gds"} => Succeeded("verify", runs[r].ver)
        /\ runs[r].kind = "gds" => Succeeded("sim", runs[r].ver)

(* Registered GDS evidence is about a complete, successful RTL-to-GDS run  *)
(* of a version that was verified and simulated; an outcome is about an    *)
(* incomplete one; so no run ever has both, in memory or on disk           *)
(* (record_gds_evidence, record_evidence).                                 *)
EvidenceIsSound ==
    /\ \A r \in evidence \cup evidenceDb :
          /\ runs[r] # None
          /\ runs[r].kind = "gds" /\ runs[r].status = "succeeded"
          /\ runs[r].complete
          /\ Succeeded("verify", runs[r].ver) /\ Succeeded("sim", runs[r].ver)
    /\ \A r \in outcome \cup outcomeDb :
          /\ runs[r] # None
          /\ runs[r].kind = "gds" /\ runs[r].status = "succeeded"
          /\ ~runs[r].complete

(* Only the owner of the spec a run was submitted for gets to observe it,  *)
(* by whichever of the three ways assert_run_owner finds the owner.        *)
OnlyOwnersObserve ==
    \A t \in Threads :
        req[t].at = "observe" => req[t].user = OwnerOf[runs[req[t].run].spec]

(* What a restart would load is already served, under the same identity:   *)
(* version ids keep their spec and parent, evidence and outcomes on disk   *)
(* are in memory.                                                          *)
RowsAreServed ==
    /\ \A v \in Versions : versionDb[v] # None =>
          /\ version[v] # None
          /\ versionDb[v].spec = version[v].spec
          /\ versionDb[v].parent = version[v].parent
    /\ evidenceDb \subseteq evidence
    /\ outcomeDb \subseteq outcome

(* What each request in flight may rely on: the version it is about is     *)
(* still there under the same identity, the run it carries is of the task  *)
(* it is about, and what it checked before still holds.  With OneRunPerTask *)
(* and RunsKnowTheirSpec this makes the properties above inductive.        *)
SameVersion(rec, v) ==
    /\ version[v] # None
    /\ rec.spec = version[v].spec /\ rec.parent = version[v].parent

Sound(q) ==
    /\ q.at = "invalidate_mem" => SameVersion(q.rec, q.parent)
    /\ q.at = "submit" =>
          /\ version[q.ver] # None
          /\ q.kind \in {"sim", "gds"} => Succeeded("verify", q.ver)
          /\ q.kind = "gds" => Succeeded("sim", q.ver)
    /\ q.at = "marking" => version[q.ver] # None /\ q.run \in RunFor(q.kind, q.ver)
    /\ q.at = "owner" => version[q.ver] # None /\ q.run \in RunFor("gds", q.ver)
    /\ q.at \in Writing => SameVersion(q.rec, q.ver) /\ Earned(q.ver, q.rec)
    /\ q.at = "observe" =>
          /\ runs[q.run] # None /\ runs[q.run].status = q.status
          /\ q.user = OwnerOf[runs[q.run].spec]
    /\ q.at = "record" =>
          /\ version[q.ver] # None /\ q.run \in RunFor(q.kind, q.ver)
          /\ runs[q.run].status = q.status
    /\ q.at \in {"fetch", "evidence_mem", "evidence_save", "outcome_mem",
                 "outcome_save"} =>
          /\ runs[q.run] # None
          /\ runs[q.run].kind = "gds" /\ runs[q.run].status = "succeeded"
    /\ q.at \in {"evidence_mem", "evidence_save"} => runs[q.run].complete
    /\ q.at \in {"outcome_mem", "outcome_save"} => ~runs[q.run].complete
    /\ q.at = "evidence_save" => q.run \in evidence
    /\ q.at = "outcome_save" => q.run \in outcome

OneRunPerTask ==
    \A r, q \in Runs :
        /\ runs[r] # None /\ runs[q] # None
        /\ runs[r].kind = runs[q].kind /\ runs[r].ver = runs[q].ver
        => r = q

RunsKnowTheirSpec ==
    \A r \in Runs :
        /\ (runs[r] # None /\ version[runs[r].ver] # None)
              => version[runs[r].ver].spec = runs[r].spec
        /\ runOwnerDb[r] # None
              => runs[r] # None /\ runOwnerDb[r] = OwnerOf[runs[r].spec]

ServiceInv ==
    /\ TypeOK
    /\ \A t \in Threads : Sound(req[t])
    /\ OneRunPerTask
    /\ RunsKnowTheirSpec
    /\ VerdictsAreEarned
    /\ LadderRespected
    /\ EvidenceIsSound
    /\ RowsAreServed

(* A request between the two writes of a version owes the second of them.  *)
VersionOwed(q) ==
    CASE q.at \in {"save", "mem_last"} -> {q.ver}
      [] q.at = "invalidate_save"      -> {q.parent}
      [] OTHER                         -> {}

(* No two requests are between the two writes of the same record.          *)
WritesApart ==
    /\ SpecWritesApart
    /\ \A t, u \in Threads :
          t # u => VersionOwed(req[t]) \cap VersionOwed(req[u]) = {}

(* A record no request is between the two writes of is the same in memory  *)
(* and in its row, although submit_verification writes them in the other   *)
(* order, a parent is saved as memory holds it by then, and the process    *)
(* may stop between the two.  Registered evidence and outcomes only grow.  *)
RowsMatchAtRest ==
    /\ SpecRowsMatch
    /\ \A v \in Versions :
          (\A t \in Threads : v \notin VersionOwed(req[t])) => versionDb[v] = version[v]
    /\ \A r \in Runs :
          /\ (\A t \in Threads : req[t] # [at |-> "evidence_save", run |-> r])
                => (r \in evidence <=> r \in evidenceDb)
          /\ (\A t \in Threads : req[t] # [at |-> "outcome_save", run |-> r])
                => (r \in outcome <=> r \in outcomeDb)

(* Memory and rows differ by nothing but the writes still owed.            *)
InStep ==
    /\ SpecInStep
    /\ WritesApart
    /\ RowsMatchAtRest
    /\ \A t \in Threads :
          /\ req[t].at = "save" => version[req[t].ver] = req[t].rec
          /\ req[t].at = "mem_last" => versionDb[req[t].ver] = req[t].rec

(* Only two requests between the two writes of the same record can part    *)
(* its row from memory for good: neither a record that was stale when it   *)
(* was written back, nor a refused or crashed edit, nor the order of the   *)
(* writes can (service.py 120-133, 158-182, 303-330, 366-417).             *)
PartedByOverlapOnly == [][InStep /\ WritesApart' => InStep']_vars

(* observe_run does its job: a version waiting for a verification whose    *)
(* run has ended stops waiting, if the process does not crash for ever.    *)
WaitsOnEnded(v, k) ==
    /\ version[v] # None
    /\ version[v].status[k] = "running"
    /\ runs[version[v].run[k]].status \in Observed

CrashesStop == <>[][~Restart]_vars

(* Verification settles: observe_run is never refused for good.            *)
VerificationSettles ==
    CrashesStop => \A v \in Versions :
        WaitsOnEnded(v, "verify") ~> ~WaitsOnEnded(v, "verify")

(* "Editing RTL creates a new version and invalidates old evidence": a     *)
(* version that has been edited never counts as verified again.            *)
EditedStaysInvalid ==
    \A v, w \in Versions :
        (version[w] # None /\ version[w].parent = v)
            => version[v].status["verify"] # "passed"
=============================================================================
