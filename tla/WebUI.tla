------------------------------- MODULE WebUI -------------------------------
(***************************************************************************)
(* The M1 page (apps/m1_rtl_to_gds/web/app.js) over the M1 server.         *)
(*                                                                         *)
(* A click starts a chain of requests; between a request and its reply     *)
(* the page runs other handlers, and replies of different chains arrive    *)
(* in any order.  All chains share one `version' (the server's record of   *)
(* the selected version).  A chain that submits a check polls the run      *)
(* every second, and the poll is what makes the server record the verdict: *)
(* nobody else does.                                                       *)
(* The server's handlers are atomic here and its spec is frozen; what      *)
(* threads and crashes do to them is the subject of M1Service.  The spec   *)
(* form, RTL-to-GDS (whose runs no version waits for) and what is only     *)
(* displayed are left out; logging out is leaving the page.                *)
(***************************************************************************)
EXTENDS Naturals, FiniteSets

CONSTANTS
    Versions,   \* RTL version ids the server may give
    Chains,     \* chains of requests under way at once
    Checkable,  \* versions the user verifies and simulates (a bound)
    None,
    MayFail     \* requests may fail though the server could serve them

Kinds == {"verification", "simulation"}
Terminal == {"succeeded", "failed"}    \* cancelled, timed_out: as failed
CheckStatus == {"not_run", "running", "passed", "failed", "invalidated"}

VARIABLES
    rtl,       \* the server's versions
    run,       \* the v2 run of each check: its task id never changes
    version,   \* the page's copy of the selected version
    chain,     \* the chains of requests
    lost       \* history: versions whose polling a failed request ended

vars == <<rtl, run, version, chain, lost>>

(* `held' are the checks whose run id the version carries.                 *)
Record == [verification: CheckStatus, simulation: CheckStatus,
           held: SUBSET Kinds]
Copy == [id: Versions, verification: CheckStatus, simulation: CheckStatus]

Idle == [at |-> "idle"]

(* `at' is the request sent and not answered; "timer" waits for a second   *)
(* to pass.  A reply is under way to the page when `reply' is set.         *)
FetchReply == [ok: BOOLEAN, copy: {None} \cup Copy]
CheckReply == [ok: BOOLEAN, status: {"active"} \cup Terminal]

Fetch == [at: {"get"}, of: Versions, reply: {None} \cup FetchReply]
         \cup [at: {"create"}, of: Versions \cup {None},
               reply: {None} \cup FetchReply]
Check == [at: {"submit", "poll", "evidence", "timer"}, kind: Kinds,
          of: Versions, reply: {None} \cup CheckReply]
Chain == {Idle} \cup Fetch \cup Check

ASSUME WebAssumption ==
    /\ MayFail \in BOOLEAN
    /\ Checkable \subseteq Versions
    /\ \A r \in Record \cup Copy \cup FetchReply \cup CheckReply : None # r
    /\ None \notin Versions

TypeOK ==
    /\ rtl \in [Versions -> {None} \cup Record]
    /\ run \in [Versions -> [Kinds -> {"none", "active"} \cup Terminal]]
    /\ version \in {None} \cup Copy
    /\ chain \in [Chains -> Chain]
    /\ lost \subseteq Versions

Init ==
    /\ rtl = [v \in Versions |-> None]
    /\ run = [v \in Versions |-> [k \in Kinds |-> "none"]]
    /\ version = None
    /\ chain = [c \in Chains |-> Idle]
    /\ lost = {}

-----------------------------------------------------------------------------
(* The user.  A button is enabled by the page's copy alone and stays       *)
(* enabled while earlier chains run.                                       *)
Start(c, request) ==
    /\ chain[c] = Idle
    /\ chain' = [chain EXCEPT ![c] = request]
    /\ UNCHANGED <<rtl, run, version, lost>>

Get(v) == [at |-> "get", of |-> v, reply |-> None]
Request(at, kind, v) == [at |-> at, kind |-> kind, of |-> v, reply |-> None]

Select(c, v) == rtl[v] # None /\ Start(c, Get(v))

(* A bound: versions are as many as the constant has.                      *)
Room == Cardinality({c \in Chains : chain[c].at = "create"
                                    /\ chain[c].reply = None})
          < Cardinality({v \in Versions : rtl[v] = None})

Generate(c) ==
    /\ Room
    /\ Start(c, [at |-> "create", of |-> None, reply |-> None])

NewVersion(c) ==
    /\ version # None /\ Room
    /\ Start(c, [at |-> "create", of |-> version.id, reply |-> None])

Verify(c) ==
    /\ version # None /\ version.id \in Checkable
    /\ version.verification # "running"
    /\ Start(c, Request("submit", "verification", version.id))

Simulate(c) ==
    /\ version # None /\ version.id \in Checkable
    /\ version.verification = "passed" /\ version.simulation # "running"
    /\ Start(c, Request("submit", "simulation", version.id))

-----------------------------------------------------------------------------
(* The server answers a request.                                           *)
Waits(c, at) ==
    /\ chain[c].at = at
    /\ chain[c].reply = None

CopyOf(v) == [id |-> v, verification |-> rtl[v].verification,
              simulation |-> rtl[v].simulation]

Answer(c, reply) == chain' = [chain EXCEPT ![c].reply = reply]

Refused == [ok |-> FALSE, status |-> "active"]
Accepted(status) == [ok |-> TRUE, status |-> status]

ServeGet(c) ==
    /\ Waits(c, "get")
    /\ Answer(c, [ok |-> TRUE, copy |-> CopyOf(chain[c].of)])
    /\ UNCHANGED <<rtl, run, version, lost>>

NewRecord == [verification |-> "not_run", simulation |-> "not_run", held |-> {}]
Invalidated == [verification |-> "invalidated", simulation |-> "invalidated",
                held |-> {}]

Fresh == CHOOSE v \in Versions : rtl[v] = None

(* create_rtl_version: the parent loses its verdicts and run ids.          *)
ServeCreate(c) ==
    /\ Waits(c, "create")
    /\ \E v \in Versions : rtl[v] = None
    /\ rtl' = [w \in Versions |-> IF w = Fresh THEN NewRecord
                                  ELSE IF w = chain[c].of THEN Invalidated
                                  ELSE rtl[w]]
    /\ Answer(c, [ok |-> TRUE,
                  copy |-> [id |-> Fresh, verification |-> "not_run",
                            simulation |-> "not_run"]])
    /\ UNCHANGED <<run, version, lost>>

WithStatus(record, kind, status) ==
    IF kind = "verification" THEN [record EXCEPT !.verification = status]
    ELSE [record EXCEPT !.simulation = status]

(* v2 gives a task it knows the run it already has.                        *)
AdmitAlways(k, v) ==    \* mutant: no idempotency key
    run' = [run EXCEPT ![v][k] = "active"]
Admit(k, v) == run' = [run EXCEPT ![v][k] = IF @ = "none" THEN "active" ELSE @]

(* submit_verification takes any version, submit_simulation a verified one. *)
Submittable(kind, v) ==
    kind = "simulation" => rtl[v].verification = "passed"

ServeSubmit(c) ==
    LET k == chain[c].kind
        v == chain[c].of
    IN  /\ Waits(c, "submit")
        /\ IF Submittable(k, v)
           THEN /\ rtl' = [rtl EXCEPT ![v] =
                              [WithStatus(@, k, "running")
                               EXCEPT !.held = rtl[v].held \cup {k}]]
                /\ Admit(k, v)
                /\ lost' = IF k = "verification" THEN lost \ {v} ELSE lost
                /\ Answer(c, Accepted("active"))
           ELSE Answer(c, Refused) /\ UNCHANGED <<rtl, run, lost>>
        /\ UNCHANGED <<version>>

(* The run must belong to a version; observe_run records the verdict of    *)
(* an ended run on a version that still waits for it, and refuses that of  *)
(* a simulation whose version is no longer verified.                       *)
AwaitedActive(k, v) ==    \* mutant: a run that has not ended is observed
    rtl[v][k] = "running"
AwaitedSuccess(k, v) ==    \* mutant: only success is observed
    rtl[v][k] = "running" /\ run[v][k] = "succeeded"
Awaited(k, v) == rtl[v][k] = "running" /\ run[v][k] \in Terminal

Verdict(status) == IF status = "succeeded" THEN "passed" ELSE "failed"

ObserveRun(k, v) ==
    rtl' = IF Awaited(k, v)
           THEN [rtl EXCEPT ![v] = WithStatus(@, k, Verdict(run[v][k]))]
           ELSE rtl

ServePoll(c) ==
    LET k == chain[c].kind
        v == chain[c].of
    IN  /\ Waits(c, "poll")
        /\ IF k \in rtl[v].held /\ (Awaited(k, v) => Submittable(k, v))
           THEN ObserveRun(k, v) /\ Answer(c, Accepted(run[v][k]))
           ELSE Answer(c, Refused) /\ UNCHANGED rtl
        /\ UNCHANGED <<run, version, lost>>

(* A request fails on its way to the server, in v2 or on the way back: the *)
(* page sees the same.  `lost' notes the version whose verification is no  *)
(* longer polled.                                                          *)
Undone(c) ==
    IF chain[c].at \in {"submit", "poll", "timer"}
       /\ chain[c].kind = "verification"
    THEN {chain[c].of} ELSE {}

Fails(c) ==
    /\ MayFail
    /\ chain[c].at \in {"get", "create", "submit", "poll"}
    /\ chain[c].reply # None => chain[c].reply.ok
    /\ Answer(c, IF chain[c].at \in {"get", "create"}
                 THEN [ok |-> FALSE, copy |-> None] ELSE Refused)
    /\ lost' = lost \cup Undone(c)
    /\ UNCHANGED <<rtl, run, version>>

Serve(c) == ServeGet(c) \/ ServeCreate(c) \/ ServeSubmit(c) \/ ServePoll(c)

RunEnds(k, v) ==
    /\ run[v][k] = "active"
    /\ \E status \in Terminal : run' = [run EXCEPT ![v][k] = status]
    /\ UNCHANGED <<rtl, version, chain, lost>>

-----------------------------------------------------------------------------
(* The page hears the reply and runs its handler up to the next request.   *)
Hears(c, at, ok) ==
    /\ chain[c].at = at
    /\ chain[c].reply # None
    /\ chain[c].reply.ok = ok

Then(c, request) == chain' = [chain EXCEPT ![c] = request]

ShowError(c) ==
    /\ \E at \in {"get", "create", "submit", "poll"} : Hears(c, at, FALSE)
    /\ Then(c, Idle)
    /\ UNCHANGED <<rtl, run, version, lost>>

(* selectVersion and refreshVersion.                                       *)
ShowVersion(c) ==
    /\ Hears(c, "get", TRUE)
    /\ version' = chain[c].reply.copy
    /\ Then(c, Idle)
    /\ UNCHANGED <<rtl, run, lost>>

(* The created version is selected at once, its source fetched after.      *)
ShowCreatedStale(c) ==    \* mutant: only the id of the copy is replaced
    /\ Hears(c, "create", TRUE)
    /\ version' = IF version = None THEN chain[c].reply.copy
                  ELSE [version EXCEPT !.id = chain[c].reply.copy.id]
    /\ Then(c, Get(version'.id))
    /\ UNCHANGED <<rtl, run, lost>>
ShowCreated(c) ==
    /\ Hears(c, "create", TRUE)
    /\ version' = chain[c].reply.copy
    /\ Then(c, Get(version'.id))
    /\ UNCHANGED <<rtl, run, lost>>

ShowSubmitted(c) ==
    /\ Hears(c, "submit", TRUE)
    /\ Then(c, Request("poll", chain[c].kind, chain[c].of))
    /\ UNCHANGED <<rtl, run, version, lost>>

(* pollRun: again in a second, or the run's evidence when it has ended.    *)
AfterPoll(status) == IF status \in Terminal THEN "evidence" ELSE "timer"

ShowRun(c) ==
    /\ Hears(c, "poll", TRUE)
    /\ Then(c, Request(AfterPoll(chain[c].reply.status),
                       chain[c].kind, chain[c].of))
    /\ UNCHANGED <<rtl, run, version, lost>>

TimerSelected(c) ==    \* mutant: polls for the version selected now
    /\ chain[c].at = "timer"
    /\ Then(c, Request("poll", chain[c].kind, version.id))
    /\ UNCHANGED <<rtl, run, version, lost>>
Timer(c) ==
    /\ chain[c].at = "timer"
    /\ Then(c, Request("poll", chain[c].kind, chain[c].of))
    /\ UNCHANGED <<rtl, run, version, lost>>

(* refreshEvidence reads what the server tells of a run it still knows,    *)
(* then refreshVersion asks for the version selected now, not the run's.   *)
Known(c) == chain[c].kind \in rtl[chain[c].of].held

ShowEvidence(c) ==
    /\ chain[c].at = "evidence"
    /\ \/ Known(c) /\ version # None /\ Then(c, Get(version.id))
       \/ (~Known(c) \/ version = None \/ MayFail) /\ Then(c, Idle)
    /\ UNCHANGED <<rtl, run, version, lost>>

Show(c) == ShowError(c) \/ ShowVersion(c) \/ ShowCreated(c)
           \/ ShowSubmitted(c) \/ ShowRun(c) \/ Timer(c) \/ ShowEvidence(c)

(* The page is left and opened again.  A request under way was served      *)
(* before, or never is.                                                    *)
Reopen ==
    /\ (version # None \/ \E c \in Chains : chain[c] # Idle)
    /\ version' = None
    /\ chain' = [c \in Chains |-> Idle]
    /\ lost' = lost \cup UNION {Undone(c) : c \in Chains}
    /\ UNCHANGED <<rtl, run>>

-----------------------------------------------------------------------------
User(c) == (\E v \in Versions : Select(c, v)) \/ Generate(c) \/ NewVersion(c)
           \/ Verify(c) \/ Simulate(c)

Next ==
    \/ \E c \in Chains : User(c) \/ Serve(c) \/ Fails(c) \/ Show(c)
    \/ \E k \in Kinds, v \in Versions : RunEnds(k, v)
    \/ Reopen

Spec == Init /\ [][Next]_vars

(* The server answers, the page runs its handlers and its timers; runs and *)
(* the user do as they like.                                               *)
FairSpec == Spec /\ \A c \in Chains : WF_vars(Serve(c)) /\ WF_vars(Show(c))

-----------------------------------------------------------------------------
Earned(status, k, v) ==
    /\ status = "passed" => run[v][k] = "succeeded"
    /\ status = "failed" => run[v][k] = "failed"

CopyIsEarned(copy) ==
    /\ rtl[copy.id] # None
    /\ \A k \in Kinds : Earned(copy[k], k, copy.id)

RecordIsEarned(v) ==
    rtl[v] # None =>
        \A k \in Kinds :
            /\ Earned(rtl[v][k], k, v)
            /\ rtl[v][k] = "running" => k \in rtl[v].held
            /\ k \in rtl[v].held => run[v][k] # "none"

Hearable(c) == chain[c].reply # None /\ chain[c].reply.ok

ChainIsEarned(c) ==
    /\ chain[c].at \notin {"idle", "create"} => rtl[chain[c].of] # None
    /\ chain[c].at = "create" /\ chain[c].of # None => rtl[chain[c].of] # None
    /\ chain[c].at \in {"get", "create"} /\ Hearable(c) =>
          chain[c].reply.copy # None /\ CopyIsEarned(chain[c].reply.copy)

(* However late and in whatever order replies are shown, a verdict on the  *)
(* page is that of the run of the version it is shown for.                 *)
VerdictsShownAreEarned == version # None => CopyIsEarned(version)

(* What keeps the rest: a version holds the run of each check it waits     *)
(* for, every verdict, wherever it is, is that of the run, and chains and  *)
(* the selection are of versions that exist.                               *)
PageInv ==
    /\ \A v \in Versions : RecordIsEarned(v)
    /\ VerdictsShownAreEarned
    /\ \A c \in Chains : ChainIsEarned(c)

(* Only a poll records a verdict, so a version under verification must     *)
(* have a chain that will poll it once more: overlapping chains, edits and *)
(* later selections never leave it alone, unless a request of its own      *)
(* failed or the page was left.                                            *)
Watching(c, v) ==
    /\ chain[c].at \in {"submit", "poll", "timer"}
    /\ chain[c].kind = "verification" /\ chain[c].of = v
    /\ chain[c].at = "submit" => chain[c].reply # None
    /\ chain[c].reply # None =>
          chain[c].reply.ok /\ chain[c].reply.status \notin Terminal

Unwatched(v) ==
    /\ rtl[v] # None /\ rtl[v].verification = "running" /\ v \notin lost
    /\ \A c \in Chains : ~Watching(c, v)

VerificationIsWatched == \A v \in Versions : ~Unwatched(v)

(* The inductive invariant: however replies are delayed, verdicts stay     *)
(* those of runs, and versions under verification stay watched.            *)
WebInv == TypeOK /\ PageInv /\ VerificationIsWatched

(* So a verification that has ended is recorded.                           *)
Ended(k, v) ==
    rtl[v] # None /\ rtl[v][k] = "running" /\ run[v][k] \in Terminal

VerificationIsObserved ==
    \A v \in Versions :
        Ended("verification", v) ~> ~Ended("verification", v) \/ v \in lost
=============================================================================
