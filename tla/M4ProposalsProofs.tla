------------------------- MODULE M4ProposalsProofs -------------------------
(***************************************************************************)
(* The invariant of the M4 script lab, and that it implements Consent, for *)
(* any number of proposals, runs and threads.                              *)
(***************************************************************************)
EXTENDS M4Proposals, TLAPS

(* What a new or rewritten row looks like.                                 *)
LEMMA RowShape ==
    /\ \A rec \in Row : rec.state \in ProposalState /\ rec.run \in Runs \cup {None}
    /\ \A s \in ProposalState, r \in Runs \cup {None} :
          [state |-> s, run |-> r] \in Row
    /\ \A rec \in Row, s \in ProposalState :
          /\ [rec EXCEPT !.state = s] \in Row
          /\ [rec EXCEPT !.state = s].state = s
          /\ [rec EXCEPT !.state = s].run = rec.run
    /\ None \notin Row
  BY ProposalsAssumption DEF Row

(* A request is told apart by its step.                                    *)
LEMMA RequestShape ==
    \A q \in Request :
        /\ q.at = "submit" => q.prop \in Proposals
        /\ q.at = "write" => q.prop \in Proposals /\ q.row \in Row
  BY DEF Request, Idle

(* What v2 gains by admitting a task: nothing it had is lost.              *)
LEMMA AdmitShape ==
    ASSUME TypeOK, NEW p \in Proposals, NEW r \in Runs, Admit(p, r)
    PROVE  /\ runs' \in [Runs -> Proposals \cup {None}]
           /\ runs'[r] = p
           /\ \A q \in Runs : runs[q] # None => runs'[q] = runs[q]
           /\ executedSet' = executedSet \cup {p}
  BY ProposalsAssumption DEF Admit, TypeOK, executedSet

(* Every variable keeps its type.                                          *)
LEMMA TypeStep == TypeOK /\ [Next]_vars => TypeOK'
<1> SUFFICES ASSUME TypeOK, [Next]_vars PROVE TypeOK'
  OBVIOUS
<1> USE RowShape, RequestShape DEF TypeOK, Goes
<1>1. ASSUME NEW t \in Threads, NEW p \in Proposals, NEW s \in ProposalState,
             Create(t, p, s)
      PROVE  TypeOK'
  BY <1>1 DEF Create
<1>2. ASSUME NEW t \in Threads, NEW p \in Proposals, Confirm(t, p)
      PROVE  TypeOK'
  <2>1. row[p] \in Row
    BY <1>2 DEF Confirm, State
  <2>2. [at |-> "write", prop |-> p,
         row |-> [row[p] EXCEPT !.state = "confirmed"]] \in Request
    BY <2>1 DEF Request, ProposalState
  <2> QED
    BY <1>2, <2>2 DEF Confirm
<1>3. ASSUME NEW t \in Threads, NEW p \in Proposals, Run(t, p)
      PROVE  TypeOK'
  BY <1>3 DEF Run, Request
<1>4. ASSUME NEW t \in Threads, NEW r \in Runs, Submit(t, r)
      PROVE  TypeOK'
  <2>1. req[t].prop \in Proposals
    BY <1>4 DEF Submit
  <2>2. [at |-> "write", prop |-> req[t].prop,
         row |-> [state |-> "submitted", run |-> r]] \in Request
    BY <2>1 DEF Request, ProposalState
  <2> QED
    BY <1>4, <2>1, <2>2, AdmitShape DEF Submit
<1>5. ASSUME NEW t \in Threads, NEW r \in Runs, SubmitReplyLost(t, r)
      PROVE  TypeOK'
  BY <1>5, AdmitShape DEF SubmitReplyLost, Request
<1>6. ASSUME NEW t \in Threads, CallFails(t) PROVE TypeOK'
  BY <1>6 DEF CallFails, Request
<1>7. ASSUME NEW t \in Threads, Write(t) PROVE TypeOK'
  BY <1>7 DEF Write, Request
<1>8. CASE Restart
  BY <1>8 DEF Restart, Request
<1>9. CASE UNCHANGED vars
  BY <1>9 DEF vars
<1> QED
  BY <1>1, <1>2, <1>3, <1>4, <1>5, <1>6, <1>7, <1>8, <1>9 DEF Next

(* One step as seen from a proposal's row: nothing, an offer or a refusal  *)
(* under a fresh id, a confirmation, or a write by a thread whose proposal *)
(* is confirmed already.                                                   *)
RowStep ==
    \/ row' = row
    \/ /\ runs' = runs /\ req' = req
       /\ \E p \in Proposals, s \in {"rejected", "proposed"} :
             /\ row[p] = None
             /\ row' = [row EXCEPT ![p] = [state |-> s, run |-> None]]
    \/ /\ runs' = runs
       /\ \E t \in Threads :
             /\ req[t].at = "write"
             /\ row' = [row EXCEPT ![req[t].prop] = req[t].row]
             /\ req' = [req EXCEPT ![t] = Idle]

LEMMA RowSteps == [Next]_vars => RowStep
  BY DEF Next, vars, RowStep, Create, Confirm, Run, Submit, SubmitReplyLost,
         CallFails, Write, Restart, Goes

(* No confirmation is taken back, and what a thread relies on stays true   *)
(* when rows change.                                                       *)
LEMMA RowsGrow ==
    ASSUME ProposalsInv, TypeOK', [Next]_vars
    PROVE  /\ confirmedSet \subseteq confirmedSet'
           /\ \A p \in Proposals :
                 State(p) = "proposed" =>
                    State(p)' = "proposed" \/ p \in confirmedSet'
<1> USE RowShape, RequestShape DEF ProposalsInv, TypeOK, State, confirmedSet
<1>1. CASE row' = row
  BY <1>1
<1>2. ASSUME NEW p \in Proposals, NEW s \in {"rejected", "proposed"},
             row[p] = None,
             row' = [row EXCEPT ![p] = [state |-> s, run |-> None]]
      PROVE  /\ confirmedSet \subseteq confirmedSet'
             /\ \A q \in Proposals : State(q) = "proposed" => State(q)' = "proposed"
  BY <1>2
<1>3. ASSUME NEW t \in Threads, req[t].at = "write",
             row' = [row EXCEPT ![req[t].prop] = req[t].row]
      PROVE  /\ confirmedSet \subseteq confirmedSet'
             /\ \A q \in Proposals :
                   State(q) = "proposed" =>
                      State(q)' = "proposed" \/ q \in confirmedSet'
  <2>1. /\ req[t].prop \in Proposals /\ req[t].row \in Row
        /\ req[t].row.state \in {"confirmed", "submitted"}
    BY <1>3 DEF InFlight
  <2> QED
    BY <1>3, <2>1
<1> QED
  BY RowSteps, <1>1, <1>2, <1>3 DEF RowStep

(* v2 forgets nothing.                                                     *)
LEMMA RunsGrow ==
    ASSUME TypeOK, [Next]_vars
    PROVE  \A r \in Runs : runs[r] # None => runs'[r] = runs[r]
<1>1. ASSUME NEW t \in Threads, NEW r \in Runs,
             Submit(t, r) \/ SubmitReplyLost(t, r)
      PROVE  \A q \in Runs : runs[q] # None => runs'[q] = runs[q]
  <2>1. req[t].prop \in Proposals /\ Admit(req[t].prop, r)
    BY <1>1, RequestShape DEF Submit, SubmitReplyLost, TypeOK
  <2> QED
    BY <2>1, AdmitShape
<1> QED
  BY <1>1 DEF Next, vars, Create, Confirm, Run, CallFails, Write, Restart

(* Honest of a row after the step, with the runs v2 has by then.           *)
HonestNext(p, rec) ==
    IF rec.state = "submitted" THEN rec.run \in Runs /\ runs'[rec.run] = p
                               ELSE rec.run = None

(* A row that was honest stays honest while v2 only gains runs.            *)
LEMMA HonestStays ==
    ASSUME TypeOK, [Next]_vars, NEW p \in Proposals, NEW rec, Honest(p, rec)
    PROVE  HonestNext(p, rec)
  BY RunsGrow, ProposalsAssumption DEF Honest, HonestNext, TypeOK

LEMMA HonestStep ==
    ASSUME ProposalsInv, TypeOK', [Next]_vars PROVE RowsAreHonest'
<1> USE RowShape, RequestShape DEF ProposalsInv
<1>1. ASSUME NEW p \in Proposals, row'[p] # None PROVE HonestNext(p, row'[p])
  <2>1. CASE row'[p] = row[p]
    BY <2>1, <1>1, HonestStays DEF RowsAreHonest
  <2>2. ASSUME NEW s \in {"rejected", "proposed"},
               row'[p] = [state |-> s, run |-> None]
        PROVE  HonestNext(p, row'[p])
    BY <2>2 DEF HonestNext
  <2>3. ASSUME NEW t \in Threads, req[t].at = "write", req[t].prop = p,
               row'[p] = req[t].row
        PROVE  HonestNext(p, row'[p])
    BY <2>3, HonestStays DEF RowsAreHonest
  <2>4. \/ row'[p] = row[p]
        \/ \E s \in {"rejected", "proposed"} :
              row'[p] = [state |-> s, run |-> None]
        \/ \E t \in Threads : /\ req[t].at = "write" /\ req[t].prop = p
                              /\ row'[p] = req[t].row
    BY RowSteps DEF RowStep, TypeOK
  <2> QED
    BY <2>1, <2>2, <2>3, <2>4
<1>2. ASSUME NEW t \in Threads, req'[t].at = "write"
      PROVE  HonestNext(req'[t].prop, req'[t].row)
  <2>1. CASE req'[t] = req[t]
    <3>1. Honest(req[t].prop, req[t].row) /\ req[t].prop \in Proposals
      BY <2>1, <1>2 DEF RowsAreHonest, TypeOK
    <3> QED
      BY <2>1, <3>1, HonestStays
  <2>2. ASSUME NEW p \in Proposals, Confirm(t, p)
        PROVE  HonestNext(req'[t].prop, req'[t].row)
    <3>1. row[p] \in Row /\ Honest(p, row[p]) /\ row[p].run = None
      BY <2>2 DEF Confirm, State, TypeOK, RowsAreHonest, Honest
    <3>2. req'[t].prop = p /\ req'[t].row = [row[p] EXCEPT !.state = "confirmed"]
      BY <2>2 DEF Confirm, Goes, TypeOK
    <3>3. req'[t].row.state = "confirmed" /\ req'[t].row.run = None
      BY <3>1, <3>2 DEF ProposalState
    <3> QED
      BY <3>3 DEF HonestNext
  <2>3. ASSUME NEW r \in Runs, Submit(t, r)
        PROVE  HonestNext(req'[t].prop, req'[t].row)
    <3>1. req[t].prop \in Proposals
      BY <2>3 DEF Submit, TypeOK
    <3>2. /\ req'[t].prop = req[t].prop
          /\ req'[t].row = [state |-> "submitted", run |-> r]
      BY <2>3 DEF Submit, Goes, TypeOK
    <3>3. runs'[r] = req[t].prop
      BY <2>3, <3>1, AdmitShape DEF Submit
    <3> QED
      BY <3>2, <3>3 DEF HonestNext
  <2>4. \/ req'[t] = req[t] \/ req'[t].at # "write"
        \/ \E p \in Proposals : Confirm(t, p)
        \/ \E r \in Runs : Submit(t, r)
    BY DEF Next, vars, Create, Confirm, Run, Submit, SubmitReplyLost, CallFails,
           Write, Restart, Goes, TypeOK, Idle
  <2> QED
    BY <1>2, <2>1, <2>2, <2>3, <2>4
<1> QED
  BY <1>1, <1>2 DEF RowsAreHonest, HonestNext, Honest

LEMMA InFlightStep ==
    ASSUME ProposalsInv, TypeOK', [Next]_vars PROVE InFlight'
<1> USE RowShape, RequestShape DEF ProposalsInv
<1> SUFFICES ASSUME NEW t \in Threads, NEW p \in Proposals, req'[t].prop = p
             PROVE  /\ req'[t].at = "submit" => p \in confirmedSet'
                    /\ req'[t].at = "write" =>
                          /\ req'[t].row.state \in {"confirmed", "submitted"}
                          /\ p \in confirmedSet' \/ State(p)' = "proposed"
  BY DEF InFlight, State, TypeOK
<1>1. CASE req'[t] = req[t]
  <2>1. req[t].at = "submit" => p \in confirmedSet
    BY <1>1 DEF InFlight
  <2>2. req[t].at = "write" =>
           /\ req[t].row.state \in {"confirmed", "submitted"}
           /\ p \in confirmedSet \/ State(p) = "proposed"
    BY <1>1 DEF InFlight
  <2> QED
    BY <1>1, <2>1, <2>2, RowsGrow
<1>2. ASSUME Confirm(t, p)
      PROVE  /\ req'[t].at = "write"
             /\ req'[t].row.state = "confirmed"
             /\ State(p)' = "proposed"
  BY <1>2 DEF Confirm, Goes, State, TypeOK, ProposalState
<1>3. ASSUME Run(t, p)
      PROVE  req'[t].at = "submit" /\ p \in confirmedSet'
  BY <1>3 DEF Run, Goes, State, TypeOK, confirmedSet
<1>4. ASSUME NEW r \in Runs, Submit(t, r)
      PROVE  /\ req'[t].at = "write" /\ p \in confirmedSet'
             /\ req'[t].row.state = "submitted"
  BY <1>4, RowsGrow DEF Submit, Goes, TypeOK, InFlight
<1>5. \/ req'[t] = req[t] \/ req'[t].at \notin {"submit", "write"}
      \/ Confirm(t, p) \/ Run(t, p)
      \/ \E r \in Runs : Submit(t, r)
  BY DEF Next, vars, Create, Confirm, Run, Submit, SubmitReplyLost, CallFails,
         Write, Restart, Goes, TypeOK, Idle
<1> QED
  BY <1>1, <1>2, <1>3, <1>4, <1>5

(* What a step gives to v2 is what a thread was submitting.                *)
LEMMA ExecutedStep ==
    ASSUME ProposalsInv, [Next]_vars
    PROVE  \/ executedSet' = executedSet
           \/ \E p \in confirmedSet :
                 executedSet' = executedSet \cup {p} /\ row' = row
<1>1. ASSUME NEW t \in Threads, NEW r \in Runs,
             Submit(t, r) \/ SubmitReplyLost(t, r)
      PROVE  \E p \in confirmedSet :
                executedSet' = executedSet \cup {p} /\ row' = row
  <2>1. req[t].prop \in confirmedSet /\ req[t].prop \in Proposals
    BY <1>1, RequestShape DEF Submit, SubmitReplyLost, ProposalsInv, TypeOK, InFlight
  <2>2. Admit(req[t].prop, r) /\ row' = row
    BY <1>1 DEF Submit, SubmitReplyLost
  <2> QED
    BY <2>1, <2>2, AdmitShape DEF ProposalsInv
<1> QED
  BY <1>1 DEF Next, vars, Create, Confirm, Run, CallFails, Write, Restart,
              executedSet

LEMMA InitInv == Init => ProposalsInv
  BY ProposalsAssumption
  DEF Init, ProposalsInv, TypeOK, InFlight, RowsAreHonest, ExecutedWasConfirmed,
      executedSet, confirmedSet, Request, Idle

LEMMA NextInv == ProposalsInv /\ [Next]_vars => ProposalsInv'
<1> SUFFICES ASSUME ProposalsInv, [Next]_vars PROVE ProposalsInv'
  OBVIOUS
<1>1. TypeOK'
  BY TypeStep DEF ProposalsInv
<1>2. InFlight' /\ RowsAreHonest'
  BY <1>1, InFlightStep, HonestStep
<1>3. ExecutedWasConfirmed'
  BY <1>1, ExecutedStep, RowsGrow DEF ProposalsInv, ExecutedWasConfirmed
<1> QED
  BY <1>1, <1>2, <1>3 DEF ProposalsInv

(* The inductive invariant holds for any proposals, runs and threads.      *)
THEOREM ProposalsInvariant == Spec => []ProposalsInv
<1>1. Init => ProposalsInv
  BY InitInv
<1>2. ProposalsInv /\ [Next]_vars => ProposalsInv'
  BY NextInv
<1> QED
  BY <1>1, <1>2, PTL DEF Spec

(* Nothing is executed that a user has not confirmed.                      *)
THEOREM OnlyConfirmedExecuted == Spec => []ExecutedWasConfirmed
<1>1. ProposalsInv => ExecutedWasConfirmed
  BY DEF ProposalsInv
<1> QED
  BY <1>1, ProposalsInvariant, PTL

(* A row names a run exactly when it says submitted, and v2 has that run.  *)
THEOREM HonestRows == Spec => []RowsAreHonest
<1>1. ProposalsInv => RowsAreHonest
  BY DEF ProposalsInv
<1> QED
  BY <1>1, ProposalsInvariant, PTL

(* One step of the lab is a step of Consent or none of its concern.        *)
LEMMA PromiseStep ==
    ProposalsInv /\ ProposalsInv' /\ [Next]_vars
        => [Promise!ConsentNext]_<<offeredSet, confirmedSet, executedSet>>
<1> SUFFICES ASSUME ProposalsInv, ProposalsInv', [Next]_vars
             PROVE  \/ Promise!ConsentNext
                    \/ UNCHANGED <<offeredSet, confirmedSet, executedSet>>
  OBVIOUS
<1> USE RowShape, RequestShape DEF ProposalsInv
<1>1. CASE row' = row
  <2>1. offeredSet' = offeredSet /\ confirmedSet' = confirmedSet
    BY <1>1 DEF offeredSet, confirmedSet, State
  <2>2. ASSUME NEW p \in confirmedSet, executedSet' = executedSet \cup {p}
        PROVE  Promise!ConsentNext
    <3>1. p \in Proposals
      BY DEF confirmedSet
    <3>2. Promise!Execute(p)
      BY <2>1, <2>2 DEF Promise!Execute
    <3> QED
      BY <3>1, <3>2 DEF Promise!ConsentNext
  <2> QED
    BY <2>1, <2>2, ExecutedStep
<1>2. ASSUME NEW p \in Proposals, NEW s \in {"rejected", "proposed"},
             runs' = runs, row[p] = None,
             row' = [row EXCEPT ![p] = [state |-> s, run |-> None]]
      PROVE  \/ Promise!ConsentNext
             \/ UNCHANGED <<offeredSet, confirmedSet, executedSet>>
  <2>1. executedSet' = executedSet
    BY <1>2 DEF executedSet
  <2>2. confirmedSet' = confirmedSet
    BY <1>2 DEF confirmedSet, State, TypeOK
  <2>3. p \notin offeredSet
    BY <1>2 DEF offeredSet, State
  <2>4. CASE s = "rejected"
    <3>1. offeredSet' = offeredSet
      BY <1>2, <2>4 DEF offeredSet, State, TypeOK
    <3> QED
      BY <2>1, <2>2, <3>1
  <2>5. CASE s = "proposed"
    <3>1. /\ row'[p] # None /\ row'[p].state = "proposed"
          /\ \A q \in Proposals : q # p => row'[q] = row[q]
      <4>1. [state |-> s, run |-> None] \in Row
        BY DEF ProposalState
      <4> QED
        BY <1>2, <2>5, <4>1 DEF TypeOK
    <3>2. offeredSet' = offeredSet \cup {p}
      BY <3>1 DEF offeredSet, State
    <3>3. Promise!Offer(p)
      BY <2>1, <2>2, <2>3, <3>2 DEF Promise!Offer
    <3> QED
      BY <3>3 DEF Promise!ConsentNext
  <2> QED
    BY <2>4, <2>5
<1>3. ASSUME NEW t \in Threads, req[t].at = "write", runs' = runs,
             row' = [row EXCEPT ![req[t].prop] = req[t].row]
      PROVE  Promise!ConsentNext
  <2> DEFINE p == req[t].prop
  <2>1. p \in Proposals /\ req[t].row \in Row
    BY <1>3 DEF TypeOK
  <2>2. /\ req[t].row.state \in {"confirmed", "submitted"}
        /\ State(p) \in {"proposed", "confirmed", "submitted"}
    BY <1>3 DEF InFlight, confirmedSet
  <2>3. /\ row'[p] = req[t].row /\ row'[p] # None /\ row[p] # None
        /\ row[p].state \in {"proposed", "confirmed", "submitted"}
        /\ \A q \in Proposals : q # p => row'[q] = row[q]
    BY <1>3, <2>1, <2>2 DEF State, TypeOK
  <2>4. executedSet' = executedSet
    BY <1>3 DEF executedSet
  <2> HIDE DEF p
  <2>5. offeredSet' = offeredSet /\ p \in offeredSet
    BY <2>1, <2>2, <2>3 DEF offeredSet, State
  <2>6. confirmedSet' = confirmedSet \cup {p}
    BY <2>1, <2>2, <2>3 DEF confirmedSet, State
  <2>7. Promise!Agree(p)
    BY <2>4, <2>5, <2>6 DEF Promise!Agree
  <2> QED
    BY <2>1, <2>7 DEF Promise!ConsentNext
<1> QED
  BY RowSteps, <1>1, <1>2, <1>3 DEF RowStep

(* The lab implements Consent.                                             *)
THEOREM LabKeepsItsPromise == Spec => KeepsItsPromise
<1>1. Init => Promise!ConsentInit
  BY DEF Init, Promise!ConsentInit, offeredSet, confirmedSet, executedSet, State
<1>2. ProposalsInv /\ ProposalsInv' /\ [Next]_vars
         => [Promise!ConsentNext]_(Promise!consentVars)
  BY PromiseStep DEF Promise!consentVars
<1> QED
  BY <1>1, <1>2, ProposalsInvariant, PTL
  DEF Spec, KeepsItsPromise, Promise!ConsentSpec
=============================================================================
