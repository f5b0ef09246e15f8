---------------------------- MODULE Comparisons ----------------------------
(***************************************************************************)
(* M2 compares two RTL generators and M3 two ways to run the flow          *)
(* (apps/m2_rtl_comparison and apps/m3_orfs_comparison: service, store and *)
(* server).  They are two processes with a database each and the same      *)
(* shape: a comparison is one row, read whole by a request, changed in     *)
(* memory leg by leg, each leg a call to v2, and written whole at the end. *)
(* The store locks one read or one write, never the request, and v2        *)
(* remembers what it admitted whatever becomes of the request.             *)
(*                                                                         *)
(* They differ in what a second run of a comparison does: M2 replaces the  *)
(* outcome of a leg, M3 appends to its observations and failures.          *)
(***************************************************************************)
EXTENDS Naturals

CONSTANTS
    M2, M3,       \* the ids of M2's and of M3's comparisons (uuid4)
    Users,        \* who v2 says the token of a request belongs to
    Runs,         \* v2 run ids
    Threads,      \* HTTP threads
    None,         \* "not there"
    MaxTries      \* bound: runs of one comparison that its row may record

Comparison == M2 \cup M3

ASSUME ComparisonsAssumption ==
    /\ M2 \cap M3 = {}
    /\ MaxTries \in Nat
    /\ None \notin Runs \cup Users \cup Comparison

(* 1 is direct_llm and baseline, 2 is rtlscout and orfs_agent.             *)
Legs == {1, 2}

(* run_ids as a set; observed is the length of run_ids, of observations    *)
(* and of trajectory, failed the failures noted (one at most in M2).       *)
Leg == [status: {"not_started", "submitted", "unavailable"},
        runs: SUBSET Runs, observed: Nat, failed: Nat]
Record == [owner: Users, sources: SUBSET Legs,
           state: {"created", "completed"}, leg: [Legs -> Leg]]

VARIABLES
    row,          \* table comparisons of both databases
    runs,         \* v2: whose, and for which leg, each admitted run is
    req           \* the request each thread is serving

vars == <<row, runs, req>>

Idle == [at |-> "idle"]
NoRow == [owner |-> None]
NoRun == [by |-> None]

Admission == [by: Users, comp: Comparison, leg: Legs]
Request ==
    {Idle}
    \cup [at: {"leg"}, comp: Comparison, user: Users, leg: Legs, record: Record]
    \cup [at: {"write"}, comp: Comparison, user: Users, record: Record]

TypeOK ==
    /\ row \in [Comparison -> Record \cup {NoRow}]
    /\ runs \in [Runs -> Admission \cup {NoRun}]
    /\ req \in [Threads -> Request]

Init ==
    /\ row = [c \in Comparison |-> NoRow]
    /\ runs = [r \in Runs |-> NoRun]
    /\ req = [t \in Threads |-> Idle]

Goes(t, next) == req' = [req EXCEPT ![t] = next]

-----------------------------------------------------------------------------
(* POST /comparisons: one write under a fresh id, nothing started.         *)
NotStarted == [status |-> "not_started", runs |-> {}, observed |-> 0, failed |-> 0]

Create(u, c) ==
    /\ row[c] = NoRow
    /\ row' = [row EXCEPT ![c] =
                 [owner |-> u, sources |-> {}, state |-> "created",
                  leg |-> [l \in Legs |-> NotStarted]]]
    /\ UNCHANGED <<runs, req>>

(* No endpoint registers a candidate source (M2) or a task (M3); the tests *)
(* put a row that has them before they run it.                             *)
Prepare(c, sources) ==
    /\ row[c] # NoRow
    /\ row[c].state = "created"
    /\ \A t \in Threads : req[t] # Idle => req[t].comp # c
    /\ row' = [row EXCEPT ![c].sources = sources]
    /\ UNCHANGED <<runs, req>>

(* POST /comparisons/{id}/run: get refuses anybody but the owner.          *)
Load(t, u, c) ==
    /\ req[t] = Idle
    /\ row[c] # NoRow
    /\ \A l \in Legs : row[c].leg[l].observed + row[c].leg[l].failed < MaxTries
    /\ Goes(t, [at |-> "leg", comp |-> c, user |-> u, leg |-> 1,
                record |-> row[c]])
    /\ UNCHANGED <<row, runs>>

RunAnybodys(t, u, c) == Load(t, u, c)    \* mutant: the owner is not checked

Run(t, u, c) == row[c].owner = u /\ Load(t, u, c)

(* What is left of the request once a leg has had its outcome.             *)
Noted(record, l, outcome) == [record EXCEPT !.leg[l] = outcome]
Completed(record) == [record EXCEPT !.state = "completed"]

SavesEachLeg(q, outcome) ==    \* mutant: the first leg's outcome ends the run
    [at |-> "write", comp |-> q.comp, user |-> q.user,
     record |-> Completed(Noted(q.record, q.leg, outcome))]

After(q, outcome) ==
    IF q.leg = 1
    THEN [at |-> "leg", comp |-> q.comp, user |-> q.user, leg |-> 2,
          record |-> Noted(q.record, 1, outcome)]
    ELSE [at |-> "write", comp |-> q.comp, user |-> q.user,
          record |-> Completed(Noted(q.record, q.leg, outcome))]

(* A leg without a registered source or task fails and nothing is run.     *)
FailedQuietly(c, leg) ==    \* mutant: the failure is not noted
    [leg EXCEPT !.status = "unavailable"]

Failed(c, leg) ==
    [status |-> "unavailable", runs |-> leg.runs, observed |-> leg.observed,
     failed |-> IF c \in M2 THEN 1 ELSE leg.failed + 1]

Unavailable(t) ==
    /\ req[t].at = "leg"
    /\ req[t].leg \notin req[t].record.sources
    /\ Goes(t, After(req[t], Failed(req[t].comp, req[t].record.leg[req[t].leg])))
    /\ UNCHANGED <<row, runs>>

(* A leg that has one is submitted under the request's own token.  (M2     *)
(* uploads the source first, under the same token.)  As M4, the client     *)
(* does not ask for idempotent=1, so v2 may return the run it has or admit *)
(* another.                                                                *)
Asks(q) == [by |-> q.user, comp |-> q.comp, leg |-> q.leg]

Admit(q, r) ==
    \/ runs[r] = Asks(q) /\ UNCHANGED runs
    \/ runs[r] = NoRun /\ runs' = [runs EXCEPT ![r] = Asks(q)]

SubmittedAs(c, leg, r) ==
    [status |-> "submitted",
     runs |-> IF c \in M2 THEN {r} ELSE leg.runs \cup {r},
     observed |-> IF c \in M2 THEN 1 ELSE leg.observed + 1,
     failed |-> leg.failed]

AdmittedFallingBack(t, r) ==    \* mutant: another leg's run will do
    /\ req[t].at = "leg"
    /\ req[t].record.sources # {}
    /\ \/ Admit(req[t], r)
       \/ runs[r] # NoRun /\ runs[r].comp = req[t].comp /\ runs[r].by = req[t].user
          /\ UNCHANGED runs

Admitted(t, r) ==
    /\ req[t].at = "leg"
    /\ req[t].leg \in req[t].record.sources
    /\ Admit(req[t], r)

Submit(t, r) ==
    /\ Admitted(t, r)
    /\ Goes(t, After(req[t],
                     SubmittedAs(req[t].comp, req[t].record.leg[req[t].leg], r)))
    /\ UNCHANGED row

(* A call that fails, or whose reply is lost once v2 has the run, raises   *)
(* V2Error, which no handler catches: the request ends and nothing of it   *)
(* is written.                                                             *)
SubmitReplyLost(t, r) ==
    /\ Admitted(t, r)
    /\ Goes(t, Idle)
    /\ UNCHANGED row

CallFails(t) ==
    /\ req[t].at = "leg"
    /\ req[t].leg \in req[t].record.sources
    /\ Goes(t, Idle)
    /\ UNCHANGED <<row, runs>>

(* put replaces the row by what the request made of the one it read.       *)
Write(t) ==
    /\ req[t].at = "write"
    /\ row' = [row EXCEPT ![req[t].comp] = req[t].record]
    /\ Goes(t, Idle)
    /\ UNCHANGED runs

(* One of the two processes stops and starts again on its database.  (A    *)
(* process started without --database keeps its rows in memory: a restart  *)
(* forgets them all, and nothing is left to go wrong.)                     *)
Restart(app) ==
    /\ req' = [t \in Threads |->
                 IF req[t] # Idle /\ req[t].comp \in app THEN Idle ELSE req[t]]
    /\ UNCHANGED <<row, runs>>

Next ==
    \/ \E u \in Users, c \in Comparison :
          Create(u, c) \/ \E t \in Threads : Run(t, u, c)
    \/ \E c \in Comparison, sources \in SUBSET Legs : Prepare(c, sources)
    \/ \E t \in Threads :
          \/ Unavailable(t) \/ CallFails(t) \/ Write(t)
          \/ \E r \in Runs : Submit(t, r) \/ SubmitReplyLost(t, r)
    \/ Restart(M2)
    \/ Restart(M3)

Spec == Init /\ [][Next]_vars

-----------------------------------------------------------------------------
(* Properties.                                                             *)

Saved == {c \in Comparison : row[c] # NoRow}

(* How often leg l has been tried, as record tells it.                     *)
Tries(c, record, l) ==
    LET leg == record.leg[l] IN
    IF c \in M2 THEN IF leg.status = "not_started" THEN 0 ELSE 1
    ELSE leg.observed + leg.failed

(* A comparison compares: in every saved row both legs have been tried     *)
(* equally often, none while it is only created, and at least once when it *)
(* is completed, whatever failed, crashed or overlapped on the way         *)
(* (service.py run, M2 47-60, M3 47-61).                                   *)
BothLegsTried ==
    \A c \in Saved :
        /\ Tries(c, row[c], 1) = Tries(c, row[c], 2)
        /\ row[c].state = "created" <=> Tries(c, row[c], 1) = 0

(* The legs share nothing: a run a row names under a leg was admitted for  *)
(* that comparison and that leg, and a leg without a source of its own     *)
(* names none (TEACHING_PLATFORM_SPEC.md:56-57, "no fallback to each       *)
(* other, no shared results").                                             *)
NoFallback ==
    \A c \in Saved, l \in Legs :
        /\ \A r \in row[c].leg[l].runs :
              runs[r] # NoRun /\ runs[r].comp = c /\ runs[r].leg = l
        /\ l \notin row[c].sources => row[c].leg[l].runs = {}

(* The runs of a comparison are its owner's: no two users' requests mix    *)
(* their tokens (server.py _service) or reach a row of the other (get).    *)
OwnersRun ==
    \A c \in Saved, l \in Legs : \A r \in row[c].leg[l].runs :
        runs[r] # NoRun => runs[r].by = row[c].owner

-----------------------------------------------------------------------------
(* What makes these inductive: the same of the record a request has in     *)
(* hand, whose legs before the one at work are one try ahead.              *)
Balanced(c, record) ==
    /\ Tries(c, record, 1) = Tries(c, record, 2)
    /\ record.state = "created" <=> Tries(c, record, 1) = 0

Ahead(c, record) ==
    /\ Tries(c, record, 1) > 0
    /\ c \in M3 => Tries(c, record, 1) = Tries(c, record, 2) + 1

Own(admitted, c, record) ==
    \A l \in Legs : \A r \in record.leg[l].runs :
        admitted[r] = [by |-> record.owner, comp |-> c, leg |-> l]

Sourced(record) ==
    \A l \in Legs : l \notin record.sources => record.leg[l].runs = {}

Sound(admitted, c, record) ==
    /\ Balanced(c, record) /\ Own(admitted, c, record) /\ Sourced(record)
    /\ record.state = "created" => \A l \in Legs : record.leg[l].runs = {}

(* A request in hand is its owner's.                                       *)
InHand(admitted, q) ==
    /\ q.user = q.record.owner
    /\ Own(admitted, q.comp, q.record)
    /\ Sourced(q.record)
    /\ q.at = "write" => q.record.state = "completed"
    /\ IF q.at = "leg" /\ q.leg = 2
       THEN Ahead(q.comp, q.record)
       ELSE Balanced(q.comp, q.record)

(* The inductive invariant: what is saved is balanced, sourced and its     *)
(* own, and so is what every thread is about to write.                     *)
ComparisonsInv ==
    /\ TypeOK
    /\ \A c \in Saved : Sound(runs, c, row[c])
    /\ \A t \in Threads : req[t] # Idle =>
          req[t].comp \in Saved /\ InHand(runs, req[t])
=============================================================================
