------------------------------ MODULE M1Specs ------------------------------
(***************************************************************************)
(* The specification half of the M1 service: assessing a design request,   *)
(* freezing the resulting SpecIR and registering the frozen verification   *)
(* package of a course exercise                                            *)
(* (apps/m1_rtl_to_gds/src/openroad_app_m1/{service,server}.py).           *)
(*                                                                         *)
(* M1Service keeps every record twice: in a dictionary that all request    *)
(* threads read and write without a lock, and in a SQLite row that is read *)
(* only when the process starts.  Each handler is therefore a sequence of  *)
(* steps - read the dictionary, write the dictionary, write the row, call  *)
(* v2 over HTTP - that other threads and a crash may separate.  A request  *)
(* in flight is a record: the step it is about to take and the local       *)
(* values it still needs.                                                  *)
(***************************************************************************)
EXTENDS Naturals

CONSTANTS
    Specs,        \* spec ids; each is handed out by uuid4 at most once
    Taught,       \* the specs whose top module has a teaching oracle
    SpecThreads,  \* HTTP threads serving requests on specs
    Oracles,      \* v2 input ids an uploaded oracle may be given
    None          \* "not there"

(* assess_spec ends in one of three states; only "specified" can be frozen. *)
Rejected == {"needs_clarification", "unsupported_scope"}
Assessed == Rejected \cup {"specified"}
SessionState == Assessed \cup {"frozen"}

ASSUME SpecsAssumption ==
    Taught \subseteq Specs /\ None \notin SessionState \cup Oracles

VARIABLES
    session,      \* _sessions: the state of each spec's session, in memory
    sessionDb,    \* table m1_sessions
    package,      \* _verification_packages: the oracle each package pins
    packageDb,    \* table m1_verification_packages
    specReq       \* the request each thread is serving

specVars == <<session, sessionDb, package, packageDb, specReq>>

-----------------------------------------------------------------------------
Idle == [at |-> "idle"]

SpecRequest ==
    {Idle}
    \cup [at: {"assess_save"}, spec: Specs, state: Assessed]
    \cup [at: {"freeze_mem", "freeze_save", "upload"}, spec: Specs]
    \cup [at: {"register", "register_mem", "register_save"},
          spec: Specs, oracle: Oracles]

SpecTypeOK ==
    /\ session \in [Specs -> SessionState \cup {None}]
    /\ sessionDb \in [Specs -> SessionState \cup {None}]
    /\ package \in [Specs -> Oracles \cup {None}]
    /\ packageDb \in [Specs -> Oracles \cup {None}]
    /\ specReq \in [SpecThreads -> SpecRequest]

SpecInit ==
    /\ session = [s \in Specs |-> None]
    /\ sessionDb = [s \in Specs |-> None]
    /\ package = [s \in Specs |-> None]
    /\ packageDb = [s \in Specs |-> None]
    /\ specReq = [t \in SpecThreads |-> Idle]

SpecGoes(t, next) == specReq' = [specReq EXCEPT ![t] = next]

-----------------------------------------------------------------------------
(* POST /specs: the session enters memory under a fresh id, then its row is *)
(* written.  Another request can learn the id from GET /specs in between.   *)
AssessMem(t, s, state) ==
    /\ specReq[t] = Idle
    /\ session[s] = None
    /\ session' = [session EXCEPT ![s] = state]
    /\ SpecGoes(t, [at |-> "assess_save", spec |-> s, state |-> state])
    /\ UNCHANGED <<sessionDb, package, packageDb>>

AssessSave(t) ==
    /\ specReq[t].at = "assess_save"
    /\ sessionDb' = [sessionDb EXCEPT ![specReq[t].spec] = specReq[t].state]
    /\ SpecGoes(t, Idle)
    /\ UNCHANGED <<session, package, packageDb>>

(* POST /specs/{id}/freeze: freeze_spec checks the session it read ...      *)
FreezeCheckAnything(t, s) ==    \* mutant: any known spec can be frozen
    /\ specReq[t] = Idle
    /\ session[s] # None
    /\ SpecGoes(t, [at |-> "freeze_mem", spec |-> s])
    /\ UNCHANGED <<session, sessionDb, package, packageDb>>

FreezeCheck(t, s) ==
    /\ specReq[t] = Idle
    /\ session[s] = "specified"
    /\ SpecGoes(t, [at |-> "freeze_mem", spec |-> s])
    /\ UNCHANGED <<session, sessionDb, package, packageDb>>

(* ... replaces it in memory ...                                            *)
FreezeMemForgotten(t) ==    \* mutant: memory is not updated
    /\ specReq[t].at = "freeze_mem"
    /\ SpecGoes(t, [specReq[t] EXCEPT !.at = "freeze_save"])
    /\ UNCHANGED <<session, sessionDb, package, packageDb>>

FreezeMem(t) ==
    /\ specReq[t].at = "freeze_mem"
    /\ session' = [session EXCEPT ![specReq[t].spec] = "frozen"]
    /\ SpecGoes(t, [specReq[t] EXCEPT !.at = "freeze_save"])
    /\ UNCHANGED <<sessionDb, package, packageDb>>

(* ... and in its row.  A spec without a teaching oracle ends here.         *)
FreezeSave(t) ==
    /\ specReq[t].at = "freeze_save"
    /\ sessionDb' = [sessionDb EXCEPT ![specReq[t].spec] = "frozen"]
    /\ SpecGoes(t, IF specReq[t].spec \in Taught
                   THEN [specReq[t] EXCEPT !.at = "upload"] ELSE Idle)
    /\ UNCHANGED <<session, package, packageDb>>

(* _register_teaching_package uploads the oracle to v2 ...                  *)
UploadOracle(t, o) ==
    /\ specReq[t].at = "upload"
    /\ SpecGoes(t, [at |-> "register", spec |-> specReq[t].spec, oracle |-> o])
    /\ UNCHANGED <<session, sessionDb, package, packageDb>>

(* ... unless v2 is unreachable or refuses: the request fails with 502 and  *)
(* nothing undoes the freeze.                                               *)
UploadFails(t) ==
    /\ specReq[t].at = "upload"
    /\ SpecGoes(t, Idle)
    /\ UNCHANGED <<session, sessionDb, package, packageDb>>

(* register_verification_package: a frozen spec takes one package, ...      *)
RegisterCheck(t) ==
    /\ specReq[t].at = "register"
    /\ LET s == specReq[t].spec IN
       SpecGoes(t, IF session[s] = "frozen" /\ package[s] = None
                   THEN [specReq[t] EXCEPT !.at = "register_mem"] ELSE Idle)
    /\ UNCHANGED <<session, sessionDb, package, packageDb>>

(* ... written to memory, then to its row.                                  *)
RegisterMemForgotten(t) ==    \* mutant: memory is not updated
    /\ specReq[t].at = "register_mem"
    /\ SpecGoes(t, [specReq[t] EXCEPT !.at = "register_save"])
    /\ UNCHANGED <<session, sessionDb, package, packageDb>>

RegisterMem(t) ==
    /\ specReq[t].at = "register_mem"
    /\ package' = [package EXCEPT ![specReq[t].spec] = specReq[t].oracle]
    /\ SpecGoes(t, [specReq[t] EXCEPT !.at = "register_save"])
    /\ UNCHANGED <<session, sessionDb, packageDb>>

RegisterSave(t) ==
    /\ specReq[t].at = "register_save"
    /\ packageDb' = [packageDb EXCEPT ![specReq[t].spec] = specReq[t].oracle]
    /\ SpecGoes(t, Idle)
    /\ UNCHANGED <<session, sessionDb, package>>

(* The process stops at any point; the next one loads every table.          *)
SpecRestart ==
    /\ session' = sessionDb
    /\ package' = packageDb
    /\ specReq' = [t \in SpecThreads |-> Idle]
    /\ UNCHANGED <<sessionDb, packageDb>>

-----------------------------------------------------------------------------
SpecStep(t) ==
    \/ \E s \in Specs, state \in Assessed : AssessMem(t, s, state)
    \/ AssessSave(t)
    \/ \E s \in Specs : FreezeCheck(t, s)
    \/ FreezeMem(t)
    \/ FreezeSave(t)
    \/ \E o \in Oracles : UploadOracle(t, o)
    \/ UploadFails(t)
    \/ RegisterCheck(t)
    \/ RegisterMem(t)
    \/ RegisterSave(t)

SpecNext == SpecRestart \/ \E t \in SpecThreads : SpecStep(t)

SpecSpec == SpecInit /\ [][SpecNext]_specVars

-----------------------------------------------------------------------------
(* Properties.                                                             *)

(* A request in flight whose next step writes a row has already put the    *)
(* same news in memory.                                                    *)
SpecWritesFollowMemory ==
    \A t \in SpecThreads :
        LET r == specReq[t] IN
        /\ r.at = "assess_save" => session[r.spec] # None
        /\ r.at \in {"freeze_save", "upload", "register", "register_mem",
                     "register_save"} => session[r.spec] = "frozen"
        /\ r.at = "register_save" => package[r.spec] # None

(* All that is known of a rejected spec - in memory, in its row, in the    *)
(* request that assessed it - is the same verdict, and no freeze request   *)
(* ever got past the check of a rejected spec.                             *)
RejectionsAgree ==
    /\ \A s \in Specs :
          /\ sessionDb[s] \in Rejected => session[s] = sessionDb[s]
          /\ session[s] \in Rejected => sessionDb[s] \in {session[s], None}
    /\ \A t \in SpecThreads :
          LET r == specReq[t] IN
          /\ r.at = "assess_save" =>
                \/ r.state = session[r.spec]
                \/ r.state = "specified" /\ session[r.spec] = "frozen"
          /\ r.at = "freeze_mem" => session[r.spec] \in {"specified", "frozen"}

(* Whatever a restart would bring back is already being served: no row     *)
(* exists for a spec or a package that memory does not know, and no row    *)
(* says frozen while memory still says specified.  service.py writes       *)
(* memory before the row everywhere on this path (94-95, 108-109, 194-197).*)
DurableIsServed ==
    \A s \in Specs :
        /\ sessionDb[s] # None => session[s] # None
        /\ sessionDb[s] = "frozen" => session[s] = "frozen"
        /\ packageDb[s] # None => package[s] # None

(* The inductive invariant: neither the order of the writes nor a race     *)
(* between assessing and freezing lets memory and rows part.               *)
SpecInv ==
    /\ SpecTypeOK
    /\ SpecWritesFollowMemory
    /\ RejectionsAgree
    /\ DurableIsServed

(* "unsupported_scope cannot be frozen" and "spec requires clarification   *)
(* before it can be frozen" (service.py:100-103) hold against every race:  *)
(* a rejected session keeps its verdict until the process loses it.        *)
RejectedForGood ==
    [][\A s \in Specs :
          session[s] \in Rejected => session'[s] \in {session[s], None}]_specVars

(* The dictionary and the row are two writes.  A request between the two   *)
(* owes the second of them for the session or the package it names.        *)
SessionOwed(q) == IF q.at \in {"assess_save", "freeze_save"} THEN {q.spec} ELSE {}
PackageOwed(q) == IF q.at = "register_save" THEN {q.spec} ELSE {}

SpecWritesApart ==
    \A t, u \in SpecThreads : t # u =>
        /\ SessionOwed(specReq[t]) \cap SessionOwed(specReq[u]) = {}
        /\ PackageOwed(specReq[t]) \cap PackageOwed(specReq[u]) = {}

SpecRowsMatch ==
    \A s \in Specs :
        /\ (\A t \in SpecThreads : s \notin SessionOwed(specReq[t]))
              => sessionDb[s] = session[s]
        /\ (\A t \in SpecThreads : s \notin PackageOwed(specReq[t]))
              => packageDb[s] = package[s]

(* Memory and rows differ by nothing but the writes still owed.            *)
SpecInStep ==
    /\ SpecWritesApart
    /\ SpecRowsMatch
    /\ \A t \in SpecThreads :
          LET q == specReq[t] IN
          /\ q.at = "assess_save" => session[q.spec] = q.state
          /\ q.at = "freeze_save" => session[q.spec] = "frozen"
          /\ q.at = "register_save" => package[q.spec] = q.oracle

(* Only one thing parts a row from memory for good: two requests between   *)
(* the two writes of the same record, such as a freeze that overtakes the  *)
(* first save of its session (service.py 94-95, 108-109, 194-197).  No     *)
(* step from or to any other state does, a crash between the writes        *)
(* included.                                                               *)
SpecPartedByOverlapOnly ==
    [][SpecInStep /\ SpecWritesApart' => SpecInStep']_specVars

(* What freezing a course exercise is for: once no freeze request is left  *)
(* working on it, a frozen taught spec has the package verification needs. *)
TaughtSpecsAreVerifiable ==
    \A s \in Taught :
        (session[s] = "frozen" /\ package[s] = None)
            => \E t \in SpecThreads : specReq[t] # Idle /\ specReq[t].spec = s
=============================================================================
