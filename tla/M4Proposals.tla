---------------------------- MODULE M4Proposals ----------------------------
(***************************************************************************)
(* The M4 script lab: patch proposals that a user confirms before v2 runs  *)
(* them (apps/m4_script_lab/src/openroad_app_m4/{service,store,server}.py). *)
(*                                                                         *)
(* A proposal is one row and has no copy in memory: a handler reads the    *)
(* row, decides, calls v2 if it has to, and writes the whole row back.     *)
(* The store locks a single read or write, not the handler.  A request in  *)
(* flight carries the row it is going to write.  Requests by anybody but   *)
(* the owner change nothing (get raises PermissionError) and are left out. *)
(***************************************************************************)
CONSTANTS
    Proposals,    \* proposal ids; uuid4 hands each out once
    Runs,         \* v2 run ids
    Threads,      \* HTTP threads
    None          \* "not there"

ProposalState == {"rejected", "proposed", "confirmed", "submitted"}
Row == [state: ProposalState, run: Runs \cup {None}]

ASSUME ProposalsAssumption == None \notin Runs \cup Proposals \cup Row

VARIABLES
    row,          \* table proposals
    runs,         \* v2: the proposal each admitted run executes
    req           \* the request each thread is serving

vars == <<row, runs, req>>

Idle == [at |-> "idle"]

Request ==
    {Idle}
    \cup [at: {"submit"}, prop: Proposals]
    \cup [at: {"write"}, prop: Proposals, row: Row]

TypeOK ==
    /\ row \in [Proposals -> Row \cup {None}]
    /\ runs \in [Runs -> Proposals \cup {None}]
    /\ req \in [Threads -> Request]

Init ==
    /\ row = [p \in Proposals |-> None]
    /\ runs = [r \in Runs |-> None]
    /\ req = [t \in Threads |-> Idle]

Goes(t, next) == req' = [req EXCEPT ![t] = next]
State(p) == IF row[p] = None THEN "none" ELSE row[p].state

-----------------------------------------------------------------------------
(* POST /proposals: a patch outside the recipe's allowlist is stored as    *)
(* rejected, any other as proposed.  One write, under a fresh id.          *)
Create(t, p, state) ==
    /\ req[t] = Idle
    /\ row[p] = None
    /\ state \in {"rejected", "proposed"}
    /\ row' = [row EXCEPT ![p] = [state |-> state, run |-> None]]
    /\ UNCHANGED <<runs, req>>

(* POST /proposals/{id}/confirm reads a proposed row ...                   *)
ConfirmAnything(t, p) ==    \* mutant: the state is not checked
    /\ req[t] = Idle
    /\ row[p] # None
    /\ Goes(t, [at |-> "write", prop |-> p,
                row |-> [row[p] EXCEPT !.state = "confirmed"]])
    /\ UNCHANGED <<row, runs>>

Confirm(t, p) ==
    /\ req[t] = Idle
    /\ State(p) = "proposed"
    /\ Goes(t, [at |-> "write", prop |-> p,
                row |-> [row[p] EXCEPT !.state = "confirmed"]])
    /\ UNCHANGED <<row, runs>>

(* POST /proposals/{id}/run reads a confirmed row and uploads the diff ... *)
RunProposed(t, p) ==    \* mutant: a proposal need not be confirmed
    /\ req[t] = Idle
    /\ State(p) \in {"proposed", "confirmed"}
    /\ Goes(t, [at |-> "submit", prop |-> p])
    /\ UNCHANGED <<row, runs>>

Run(t, p) ==
    /\ req[t] = Idle
    /\ State(p) = "confirmed"
    /\ Goes(t, [at |-> "submit", prop |-> p])
    /\ UNCHANGED <<row, runs>>

(* ... v2 admits the task.  The client does not ask for idempotent=1: what *)
(* v2 does with a task it has seen is left open, be it the run it has,     *)
(* another one or (below) a refusal.                                       *)
Admit(p, r) ==
    \/ runs[r] = p /\ UNCHANGED runs
    \/ runs[r] = None /\ runs' = [runs EXCEPT ![r] = p]

SubmitForgetsRun(t, r) ==    \* mutant: the run id is not kept
    /\ req[t].at = "submit"
    /\ Admit(req[t].prop, r)
    /\ Goes(t, [at |-> "write", prop |-> req[t].prop,
                row |-> [state |-> "submitted", run |-> None]])
    /\ UNCHANGED row

Submit(t, r) ==
    /\ req[t].at = "submit"
    /\ Admit(req[t].prop, r)
    /\ Goes(t, [at |-> "write", prop |-> req[t].prop,
                row |-> [state |-> "submitted", run |-> r]])
    /\ UNCHANGED row

(* ... but the reply may be lost,                                          *)
SubmitReplyLost(t, r) ==
    /\ req[t].at = "submit"
    /\ Admit(req[t].prop, r)
    /\ Goes(t, Idle)
    /\ UNCHANGED row

(* or the upload or the submission fail.  V2Error ends the request.        *)
CallFails(t) ==
    /\ req[t].at = "submit"
    /\ Goes(t, Idle)
    /\ UNCHANGED <<row, runs>>

(* _save replaces the row by what the handler made of the one it read.     *)
Write(t) ==
    /\ req[t].at = "write"
    /\ row' = [row EXCEPT ![req[t].prop] = req[t].row]
    /\ Goes(t, Idle)
    /\ UNCHANGED runs

(* The process stops and starts again on the same database.                *)
Restart ==
    /\ req' = [t \in Threads |-> Idle]
    /\ UNCHANGED <<row, runs>>

Next ==
    \/ \E t \in Threads :
          \/ \E p \in Proposals :
                \/ \E state \in ProposalState : Create(t, p, state)
                \/ Confirm(t, p) \/ Run(t, p)
          \/ \E r \in Runs : Submit(t, r) \/ SubmitReplyLost(t, r)
          \/ CallFails(t)
          \/ Write(t)
    \/ Restart

Spec == Init /\ [][Next]_vars

-----------------------------------------------------------------------------
(* Properties.                                                             *)

(* The proposals whose row says that a user has confirmed them, and those  *)
(* v2 has been given.                                                      *)
confirmedSet == {p \in Proposals : State(p) \in {"confirmed", "submitted"}}
executedSet == {runs[r] : r \in Runs} \ {None}

(* "Confirmed, allowlisted ... proposals" (README.md:41): nothing v2 was   *)
(* ever given is rejected or merely proposed, whichever requests raced.    *)
ExecutedWasConfirmed == executedSet \subseteq confirmedSet

(* A row says submitted only with a run that v2 has for this very proposal *)
(* and names no run otherwise, and so does every row about to be written.  *)
Honest(p, rec) ==
    IF rec.state = "submitted" THEN rec.run \in Runs /\ runs[rec.run] = p
                               ELSE rec.run = None

RowsAreHonest ==
    /\ \A p \in Proposals : row[p] # None => Honest(p, row[p])
    /\ \A t \in Threads : req[t].at = "write" => Honest(req[t].prop, req[t].row)

(* What a request in flight may rely on although it read its row before:   *)
(* what it is about to submit or to write has been confirmed, or is        *)
(* confirmed by this very write.                                           *)
InFlight ==
    \A t \in Threads :
        /\ req[t].at = "submit" => req[t].prop \in confirmedSet
        /\ req[t].at = "write" =>
              /\ req[t].row.state \in {"confirmed", "submitted"}
              /\ req[t].prop \in confirmedSet \/ State(req[t].prop) = "proposed"

offeredSet == {p \in Proposals : State(p) \notin {"none", "rejected"}}

Promise == INSTANCE Consent WITH
    offered <- offeredSet, confirmed <- confirmedSet, executed <- executedSet

(* The lab implements Consent: stale writes, repeated tasks, lost replies  *)
(* and restarts neither execute what was not confirmed nor confirm what    *)
(* was rejected, and no confirmation is ever taken back.                   *)
KeepsItsPromise == Promise!ConsentSpec

ProposalsInv == TypeOK /\ InFlight /\ RowsAreHonest /\ ExecutedWasConfirmed
=============================================================================
