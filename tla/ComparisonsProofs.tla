------------------------ MODULE ComparisonsProofs ------------------------
(***************************************************************************)
(* M2 and M3 compare fairly and never mix legs, comparisons or users, for  *)
(* any number of comparisons, users, runs and threads.                     *)
(***************************************************************************)
EXTENDS Comparisons, TLAPS

(* A request is told apart by its step.                                    *)
LEMMA RequestShape ==
    /\ Idle \in Request
    /\ \A q \in Request : q # Idle =>
          /\ q.comp \in Comparison /\ q.user \in Users /\ q.record \in Record
          /\ q.at \in {"leg", "write"}
          /\ q.at = "leg" =>
                /\ q.leg \in Legs
                /\ q = [at |-> "leg", comp |-> q.comp, user |-> q.user,
                        leg |-> q.leg, record |-> q.record]
    /\ Idle.at = "idle"
    /\ \A c \in Comparison, u \in Users, l \in Legs, rec \in Record :
          [at |-> "leg", comp |-> c, user |-> u, leg |-> l, record |-> rec]
             \in Request \ {Idle}
    /\ \A c \in Comparison, u \in Users, rec \in Record :
          [at |-> "write", comp |-> c, user |-> u, record |-> rec]
             \in Request \ {Idle}
  BY DEF Request, Idle

(* No row is NoRow, and no admission NoRun.                                *)
LEMMA Apart == NoRow \notin Record /\ NoRun \notin Admission
<1>1. \A rec \in Record : rec.owner \in Users
  BY DEF Record
<1>2. \A a \in Admission : a.by \in Users
  BY DEF Admission
<1> QED
  BY <1>1, <1>2, ComparisonsAssumption DEF NoRow, NoRun

(* What a record becomes when the outcome of a leg is put into it, by      *)
(* field.                                                                  *)
LEMMA RecordStep ==
    ASSUME NEW rec \in Record, NEW l \in Legs, NEW outcome \in Leg
    PROVE  /\ Noted(rec, l, outcome) \in Record
           /\ Noted(rec, l, outcome).owner = rec.owner
           /\ Noted(rec, l, outcome).sources = rec.sources
           /\ Noted(rec, l, outcome).state = rec.state
           /\ Noted(rec, l, outcome).leg[l] = outcome
           /\ \A k \in Legs \ {l} : Noted(rec, l, outcome).leg[k] = rec.leg[k]
  BY DEF Record, Noted

LEMMA CompletedShape ==
    ASSUME NEW rec \in Record
    PROVE  /\ Completed(rec) \in Record
           /\ Completed(rec).owner = rec.owner
           /\ Completed(rec).sources = rec.sources
           /\ Completed(rec).leg = rec.leg
           /\ Completed(rec).state = "completed"
  BY DEF Record, Completed

(* Both outcomes of a leg are legs, try it once more and touch no run but  *)
(* the one they add.                                                       *)
LEMMA FailedShape ==
    ASSUME NEW c \in Comparison, NEW leg \in Leg
    PROVE  /\ Failed(c, leg) \in Leg
           /\ Failed(c, leg).runs = leg.runs
           /\ Failed(c, leg).status = "unavailable"
           /\ c \notin M2 =>
                 Failed(c, leg).observed + Failed(c, leg).failed
                    = leg.observed + leg.failed + 1
<1>1. CASE c \in M2
  BY <1>1 DEF Leg, Failed
<1>2. CASE c \notin M2
  BY <1>2 DEF Leg, Failed
<1> QED
  BY <1>1, <1>2

LEMMA SubmittedShape ==
    ASSUME NEW c \in Comparison, NEW leg \in Leg, NEW r \in Runs
    PROVE  /\ SubmittedAs(c, leg, r) \in Leg
           /\ SubmittedAs(c, leg, r).runs \subseteq leg.runs \cup {r}
           /\ SubmittedAs(c, leg, r).status = "submitted"
           /\ c \notin M2 =>
                 SubmittedAs(c, leg, r).observed + SubmittedAs(c, leg, r).failed
                    = leg.observed + leg.failed + 1
<1>1. CASE c \in M2
  BY <1>1 DEF Leg, SubmittedAs
<1>2. CASE c \notin M2
  BY <1>2 DEF Leg, SubmittedAs
<1> QED
  BY <1>1, <1>2

(* v2 forgets nothing, and has the run it returns as it was asked for.     *)
LEMMA AdmitShape ==
    ASSUME TypeOK, NEW q \in Request, q.at = "leg", NEW r \in Runs, Admit(q, r)
    PROVE  /\ runs' \in [Runs -> Admission \cup {NoRun}]
           /\ runs'[r] = [by |-> q.user, comp |-> q.comp, leg |-> q.leg]
           /\ \A s \in Runs : runs[s] # NoRun => runs'[s] = runs[s]
<1>1. Asks(q) \in Admission
  BY RequestShape DEF Asks, Admission
<1> QED
  BY <1>1 DEF Admit, Asks, TypeOK

(* A leg's outcome keeps the request well formed.                          *)
LEMMA AfterShape ==
    ASSUME NEW q \in Request, q.at = "leg", NEW outcome \in Leg
    PROVE  /\ After(q, outcome) \in Request \ {Idle}
           /\ After(q, outcome).comp = q.comp
           /\ After(q, outcome).user = q.user
           /\ q.leg = 1 =>
                 /\ After(q, outcome).at = "leg"
                 /\ After(q, outcome).leg = 2
                 /\ After(q, outcome).record = Noted(q.record, 1, outcome)
           /\ q.leg # 1 =>
                 /\ After(q, outcome).at = "write"
                 /\ After(q, outcome).record
                       = Completed(Noted(q.record, q.leg, outcome))
<1>1. /\ q.comp \in Comparison /\ q.user \in Users /\ q.leg \in Legs
      /\ q.record \in Record
  BY RequestShape DEF Idle
<1>2. Noted(q.record, q.leg, outcome) \in Record
  BY <1>1, RecordStep
<1>3. Completed(Noted(q.record, q.leg, outcome)) \in Record
  BY <1>2, CompletedShape
<1>4. CASE q.leg = 1
  BY <1>1, <1>2, <1>4, RequestShape DEF After, Legs
<1>5. CASE q.leg # 1
  BY <1>1, <1>3, <1>5, RequestShape DEF After
<1> QED
  BY <1>4, <1>5

-----------------------------------------------------------------------------
(* The type invariant.                                                     *)

(* One step of one request: the row stays and v2 may gain a run, or the    *)
(* request writes.                                                         *)
LEMMA TypeStep == TypeOK /\ [Next]_vars => TypeOK'
<1> SUFFICES ASSUME TypeOK, [Next]_vars PROVE TypeOK'
  OBVIOUS
<1> USE DEF TypeOK, Goes
<1>1. ASSUME NEW u \in Users, NEW c \in Comparison, Create(u, c)
      PROVE  TypeOK'
  <2>1. [owner |-> u, sources |-> {}, state |-> "created",
         leg |-> [l \in Legs |-> NotStarted]] \in Record
    BY DEF Record, Leg, NotStarted
  <2> QED
    BY <1>1, <2>1 DEF Create
<1>2. ASSUME NEW u \in Users, NEW c \in Comparison, NEW t \in Threads,
             Run(t, u, c)
      PROVE  TypeOK'
  <2>1. row[c] \in Record
    BY <1>2 DEF Run, Load
  <2> QED
    BY <1>2, <2>1, RequestShape DEF Run, Load, Legs
<1>3. ASSUME NEW c \in Comparison, NEW sources \in SUBSET Legs,
             Prepare(c, sources)
      PROVE  TypeOK'
  <2>1. [row[c] EXCEPT !.sources = sources] \in Record
    BY <1>3 DEF Prepare, Record
  <2> QED
    BY <1>3, <2>1 DEF Prepare
<1>4. ASSUME NEW t \in Threads, Unavailable(t)
      PROVE  TypeOK'
  <2>1. /\ req[t] \in Request /\ req[t].at = "leg"
        /\ Failed(req[t].comp, req[t].record.leg[req[t].leg]) \in Leg
    BY <1>4, RequestShape, FailedShape DEF Unavailable, Idle, Record
  <2> QED
    BY <1>4, <2>1, AfterShape DEF Unavailable
<1>5. ASSUME NEW t \in Threads, NEW r \in Runs, Submit(t, r)
      PROVE  TypeOK'
  <2>1. /\ req[t] \in Request /\ req[t].at = "leg"
        /\ SubmittedAs(req[t].comp, req[t].record.leg[req[t].leg], r) \in Leg
    <3>1. /\ req[t] \in Request /\ req[t].at = "leg" /\ req[t] # Idle
      BY <1>5 DEF Submit, Admitted, Idle
    <3>2. req[t].comp \in Comparison /\ req[t].record.leg[req[t].leg] \in Leg
      BY <3>1, RequestShape DEF Record
    <3> QED
      BY <3>1, <3>2, SubmittedShape
  <2> QED
    BY <1>5, <2>1, AfterShape, AdmitShape DEF Submit, Admitted
<1>6. ASSUME NEW t \in Threads, NEW r \in Runs, SubmitReplyLost(t, r)
      PROVE  TypeOK'
  BY <1>6, AdmitShape, RequestShape DEF SubmitReplyLost, Admitted
<1>7. ASSUME NEW t \in Threads, CallFails(t) PROVE TypeOK'
  BY <1>7, RequestShape DEF CallFails
<1>8. ASSUME NEW t \in Threads, Write(t) PROVE TypeOK'
  <2>1. req[t].comp \in Comparison /\ req[t].record \in Record
    BY <1>8, RequestShape DEF Write
  <2> QED
    BY <1>8, <2>1, RequestShape DEF Write
<1>9. ASSUME NEW app, Restart(app) PROVE TypeOK'
  BY <1>9, RequestShape DEF Restart
<1>10. CASE UNCHANGED vars
  BY <1>10 DEF vars
<1> QED
  BY <1>1, <1>2, <1>3, <1>4, <1>5, <1>6, <1>7, <1>8, <1>9, <1>10 DEF Next

-----------------------------------------------------------------------------
(* The inductive invariant.                                                *)

(* Nothing a record names changes hands when v2 admits more.               *)
LEMMA OwnKept ==
    ASSUME NEW old, NEW new, NEW c \in Comparison, NEW rec \in Record,
           Own(old, c, rec),
           \A r \in Runs : old[r] # NoRun => new[r] = old[r]
    PROVE  Own(new, c, rec)
<1>1. \A l \in Legs : [by |-> rec.owner, comp |-> c, leg |-> l] # NoRun
  BY Apart DEF Record, Admission
<1>2. \A l \in Legs : rec.leg[l].runs \subseteq Runs
  BY DEF Record, Leg
<1> QED
  BY <1>1, <1>2 DEF Own

(* A request that gives its leg an outcome of its own stays sound.         *)
LEMMA LegDone ==
    ASSUME NEW old, NEW new, NEW q \in Request, q.at = "leg", InHand(old, q),
           \A r \in Runs : old[r] # NoRun => new[r] = old[r],
           NEW outcome \in Leg,
           outcome.status # "not_started",
           q.comp \notin M2 =>
              outcome.observed + outcome.failed
                 = q.record.leg[q.leg].observed + q.record.leg[q.leg].failed + 1,
           \A r \in outcome.runs :
              new[r] = [by |-> q.user, comp |-> q.comp, leg |-> q.leg],
           q.leg \notin q.record.sources => outcome.runs = {}
    PROVE  InHand(new, After(q, outcome))
<1> DEFINE rec == q.record
           next == Noted(rec, q.leg, outcome)
<1>1. /\ q.comp \in Comparison /\ rec \in Record /\ q.leg \in Legs
  BY RequestShape DEF Idle
<1>2. /\ next \in Record /\ next.owner = rec.owner
      /\ next.sources = rec.sources /\ next.state = rec.state
      /\ next.leg[q.leg] = outcome
      /\ \A k \in Legs \ {q.leg} : next.leg[k] = rec.leg[k]
  BY <1>1, RecordStep
<1>3. /\ Completed(next).owner = rec.owner
      /\ Completed(next).sources = rec.sources
      /\ Completed(next).leg = next.leg
      /\ Completed(next).state = "completed"
  BY <1>2, CompletedShape
<1>4. q.user = rec.owner /\ Own(new, q.comp, rec) /\ Sourced(rec)
  BY <1>1, OwnKept DEF InHand
<1> HIDE DEF next
<1>5. Own(new, q.comp, next) /\ Sourced(next)
  BY <1>1, <1>2, <1>4 DEF Own, Sourced
<1>6. Own(new, q.comp, Completed(next)) /\ Sourced(Completed(next))
  BY <1>2, <1>3, <1>5 DEF Own, Sourced
<1>7. /\ outcome.observed \in Nat /\ outcome.failed \in Nat
      /\ \A l \in Legs : rec.leg[l].observed \in Nat /\ rec.leg[l].failed \in Nat
  BY <1>1 DEF Record, Leg
<1>8. CASE q.leg = 1
  <2>1. Balanced(q.comp, rec)
    BY <1>8 DEF InHand
  <2>2. Tries(q.comp, next, 2) = Tries(q.comp, rec, 2)
    BY <1>2, <1>8 DEF Tries, Legs
  <2>3. /\ q.comp \in M2 => Tries(q.comp, next, 1) = 1
        /\ q.comp \notin M2 =>
              Tries(q.comp, next, 1) = Tries(q.comp, rec, 1) + 1
    BY <1>2, <1>8 DEF Tries, Legs
  <2>4. q.comp \notin M2 => Tries(q.comp, rec, 1) \in Nat
    BY <1>7 DEF Tries, Legs
  <2>5. Ahead(q.comp, next)
    BY <2>1, <2>2, <2>3, <2>4, ComparisonsAssumption DEF Ahead, Balanced
  <2> QED
    BY <1>2, <1>4, <1>5, <1>8, <2>5, AfterShape DEF InHand, next
<1>9. CASE q.leg # 1
  <2>1. q.leg = 2 /\ Ahead(q.comp, rec)
    BY <1>1, <1>9 DEF InHand, Legs
  <2>2. Tries(q.comp, next, 1) = Tries(q.comp, rec, 1)
    BY <1>2, <2>1 DEF Tries, Legs
  <2>3. /\ q.comp \in M2 => /\ Tries(q.comp, next, 2) = 1
                            /\ Tries(q.comp, rec, 1) \in {0, 1}
        /\ q.comp \notin M2 =>
              Tries(q.comp, next, 2) = Tries(q.comp, rec, 2) + 1
    BY <1>2, <2>1 DEF Tries, Legs
  <2>4. Tries(q.comp, next, 1) = Tries(q.comp, next, 2)
        /\ Tries(q.comp, next, 1) # 0
    BY <1>1, <2>1, <2>2, <2>3 DEF Ahead, Comparison
  <2>5. Balanced(q.comp, Completed(next))
    BY <1>3, <2>4 DEF Balanced, Tries
  <2> QED
    BY <1>3, <1>4, <1>6, <1>9, <2>5, AfterShape DEF InHand, next
<1> QED
  BY <1>8, <1>9

(* What happens to rows and requests in a step that only thread t takes,   *)
(* if the outcome of t's request is sound.                                 *)
LEMMA OneThread ==
    ASSUME ComparisonsInv, TypeOK', NEW t \in Threads, NEW next,
           row' = row, Goes(t, next),
           \A r \in Runs : runs[r] # NoRun => runs'[r] = runs[r],
           next # Idle => next.comp \in Saved /\ InHand(runs', next)
    PROVE  ComparisonsInv'
<1>1. ASSUME NEW c \in Saved
      PROVE  Sound(runs', c, row[c])
  <2>1. c \in Comparison /\ row[c] \in Record
    BY DEF Saved, ComparisonsInv, TypeOK
  <2> QED
    BY <2>1, OwnKept DEF ComparisonsInv, Sound
<1>2. ASSUME NEW s \in Threads, s # t, req[s] # Idle
      PROVE  InHand(runs', req[s])
  <2>1. req[s].comp \in Comparison /\ req[s].record \in Record
    BY <1>2, RequestShape DEF ComparisonsInv, TypeOK
  <2> QED
    BY <1>2, <2>1, OwnKept DEF ComparisonsInv, InHand
<1>3. Saved' = Saved
  BY DEF Saved
<1>4. /\ req' \in [Threads -> Request] /\ req'[t] = next
      /\ \A s \in Threads \ {t} : req'[s] = req[s]
  BY DEF Goes, ComparisonsInv, TypeOK
<1> QED
  BY <1>1, <1>2, <1>3, <1>4 DEF ComparisonsInv

LEMMA InvInit == Init => ComparisonsInv
  BY RequestShape DEF Init, ComparisonsInv, TypeOK, Saved

LEMMA InvStep == ComparisonsInv /\ [Next]_vars => ComparisonsInv'
<1> SUFFICES ASSUME ComparisonsInv, [Next]_vars PROVE ComparisonsInv'
  OBVIOUS
<1>0. TypeOK' /\ TypeOK
  BY TypeStep DEF ComparisonsInv
<1>1. ASSUME NEW u \in Users, NEW c \in Comparison, Create(u, c)
      PROVE  ComparisonsInv'
  <2> DEFINE new == [owner |-> u, sources |-> {}, state |-> "created",
                     leg |-> [l \in Legs |-> NotStarted]]
  <2>1. Sound(runs, c, new)
    BY DEF Sound, Balanced, Own, Sourced, Tries, Legs, NotStarted
  <2>2. new # NoRow
    BY ComparisonsAssumption DEF NoRow
  <2> HIDE DEF new
  <2>3. row' = [row EXCEPT ![c] = new] /\ runs' = runs /\ req' = req
    BY <1>1 DEF Create, new
  <2>4. Saved' = Saved \cup {c} /\ row'[c] = new
        /\ \A d \in Comparison \ {c} : row'[d] = row[d]
    BY <1>0, <2>2, <2>3 DEF Saved, TypeOK
  <2> QED
    BY <1>0, <2>1, <2>3, <2>4 DEF ComparisonsInv, Saved
<1>2. ASSUME NEW u \in Users, NEW c \in Comparison, NEW t \in Threads,
             Run(t, u, c)
      PROVE  ComparisonsInv'
  <2> DEFINE next == [at |-> "leg", comp |-> c, user |-> u, leg |-> 1,
                      record |-> row[c]]
  <2>1. c \in Saved /\ row' = row /\ runs' = runs /\ Goes(t, next)
        /\ row[c].owner = u
    BY <1>2 DEF Run, Load, Saved
  <2>2. InHand(runs', next)
    BY <2>1 DEF ComparisonsInv, Sound, InHand
  <2> QED
    BY <1>0, <2>1, <2>2, OneThread
<1>3. ASSUME NEW c \in Comparison, NEW sources \in SUBSET Legs,
             Prepare(c, sources)
      PROVE  ComparisonsInv'
  <2>1. /\ row[c] \in Record /\ c \in Saved
        /\ runs' = runs /\ req' = req
        /\ row' = [row EXCEPT ![c].sources = sources]
        /\ row[c].state = "created"
    BY <1>0, <1>3 DEF Prepare, TypeOK, Saved
  <2>2. /\ row'[c].owner = row[c].owner /\ row'[c].state = row[c].state
        /\ row'[c].leg = row[c].leg /\ row'[c] \in Record
    BY <1>0, <2>1 DEF Record, TypeOK
  <2>3. Saved' = Saved /\ \A d \in Comparison \ {c} : row'[d] = row[d]
    BY <1>0, <2>1, <2>2, Apart DEF Saved, TypeOK
  <2>4. \A l \in Legs : row[c].leg[l].runs = {}
    BY <2>1 DEF ComparisonsInv, Sound
  <2>5. Sound(runs, c, row'[c])
    <3>1. Balanced(c, row'[c])
      BY <2>1, <2>2 DEF ComparisonsInv, Sound, Balanced, Tries
    <3> QED
      BY <2>2, <2>4, <3>1 DEF Sound, Own, Sourced
  <2> QED
    BY <1>0, <2>1, <2>3, <2>5 DEF ComparisonsInv, Saved
<1>4. ASSUME NEW t \in Threads, Unavailable(t)
      PROVE  ComparisonsInv'
  <2> DEFINE q == req[t]
             outcome == Failed(q.comp, q.record.leg[q.leg])
  <2>1. q \in Request /\ q.at = "leg" /\ q # Idle /\ InHand(runs, q)
        /\ q.comp \in Saved /\ runs' = runs /\ row' = row
        /\ q.leg \notin q.record.sources /\ Goes(t, After(q, outcome))
    BY <1>0, <1>4 DEF Unavailable, ComparisonsInv, TypeOK, Idle
  <2>2. /\ q.comp \in Comparison /\ q.record \in Record /\ q.leg \in Legs
        /\ q.record.leg[q.leg] \in Leg
    BY <2>1, RequestShape DEF Record
  <2>3. q.record.leg[q.leg].runs = {}
    BY <2>1, <2>2 DEF InHand, Sourced
  <2>4. /\ outcome \in Leg /\ outcome.runs = {}
        /\ outcome.status = "unavailable"
        /\ q.comp \notin M2 =>
              outcome.observed + outcome.failed
                 = q.record.leg[q.leg].observed + q.record.leg[q.leg].failed + 1
    BY <2>2, <2>3, FailedShape
  <2> HIDE DEF q, outcome
  <2>5. InHand(runs', After(q, outcome))
    BY <2>1, <2>4, LegDone
  <2>6. After(q, outcome).comp = q.comp
    BY <2>1, <2>4, AfterShape
  <2> QED
    BY <1>0, <2>1, <2>5, <2>6, OneThread
<1>5. ASSUME NEW t \in Threads, NEW r \in Runs, Submit(t, r)
      PROVE  ComparisonsInv'
  <2> DEFINE q == req[t]
             outcome == SubmittedAs(q.comp, q.record.leg[q.leg], r)
  <2>1. q \in Request /\ q.at = "leg" /\ q # Idle /\ InHand(runs, q)
        /\ q.comp \in Saved /\ Admit(q, r) /\ row' = row
        /\ q.leg \in q.record.sources /\ Goes(t, After(q, outcome))
    BY <1>0, <1>5 DEF Submit, Admitted, ComparisonsInv, TypeOK, Idle
  <2>2. /\ q.comp \in Comparison /\ q.record \in Record /\ q.leg \in Legs
        /\ q.record.leg[q.leg] \in Leg
    BY <2>1, RequestShape DEF Record
  <2>3. /\ runs'[r] = [by |-> q.user, comp |-> q.comp, leg |-> q.leg]
        /\ \A s \in Runs : runs[s] # NoRun => runs'[s] = runs[s]
    BY <1>0, <2>1, AdmitShape
  <2>4. /\ outcome \in Leg /\ outcome.status = "submitted"
        /\ outcome.runs \subseteq q.record.leg[q.leg].runs \cup {r}
        /\ q.comp \notin M2 =>
              outcome.observed + outcome.failed
                 = q.record.leg[q.leg].observed + q.record.leg[q.leg].failed + 1
    BY <2>2, SubmittedShape
  <2>5. Own(runs', q.comp, q.record) /\ q.user = q.record.owner
    BY <2>1, <2>2, <2>3, OwnKept DEF InHand
  <2>6. \A s \in outcome.runs :
           runs'[s] = [by |-> q.user, comp |-> q.comp, leg |-> q.leg]
    <3> HIDE DEF q, outcome
    <3> QED
      BY <2>2, <2>3, <2>4, <2>5 DEF Own
  <2> HIDE DEF q, outcome
  <2>7. InHand(runs', After(q, outcome))
    BY <2>1, <2>3, <2>4, <2>6, LegDone
  <2>8. After(q, outcome).comp = q.comp
    BY <2>1, <2>4, AfterShape
  <2> QED
    BY <1>0, <2>1, <2>3, <2>7, <2>8, OneThread
<1>6. ASSUME NEW t \in Threads, NEW r \in Runs, SubmitReplyLost(t, r)
      PROVE  ComparisonsInv'
  <2>1. /\ req[t] \in Request /\ req[t].at = "leg" /\ Admit(req[t], r)
        /\ row' = row /\ Goes(t, Idle)
    BY <1>0, <1>6 DEF SubmitReplyLost, Admitted, TypeOK
  <2>2. \A s \in Runs : runs[s] # NoRun => runs'[s] = runs[s]
    BY <1>0, <2>1, AdmitShape
  <2> QED
    BY <1>0, <2>1, <2>2, OneThread
<1>7. ASSUME NEW t \in Threads, CallFails(t) PROVE ComparisonsInv'
  BY <1>0, <1>7, OneThread DEF CallFails
<1>8. ASSUME NEW t \in Threads, Write(t) PROVE ComparisonsInv'
  <2> DEFINE q == req[t]
  <2>1. q \in Request /\ q.at = "write" /\ q # Idle /\ q.comp \in Saved
        /\ InHand(runs, q) /\ q.record \in Record /\ q.comp \in Comparison
    BY <1>0, <1>8, RequestShape DEF Write, ComparisonsInv, TypeOK, Idle
  <2>2. Sound(runs, q.comp, q.record)
    BY <2>1 DEF InHand, Sound
  <2>3. /\ row' = [row EXCEPT ![q.comp] = q.record] /\ runs' = runs
        /\ req' = [req EXCEPT ![t] = Idle]
    BY <1>8 DEF Write, Goes
  <2> HIDE DEF q
  <2>4. Saved' = Saved /\ row'[q.comp] = q.record
        /\ \A d \in Comparison \ {q.comp} : row'[d] = row[d]
    BY <1>0, <2>1, <2>3, Apart DEF Saved, TypeOK
  <2>5. \A c \in Saved : Sound(runs, c, row'[c])
    BY <2>2, <2>4 DEF ComparisonsInv, Saved
  <2>6. \A s \in Threads : req'[s] # Idle => req'[s] = req[s]
    BY <1>0, <2>3 DEF TypeOK
  <2> QED
    BY <1>0, <2>3, <2>4, <2>5, <2>6 DEF ComparisonsInv
<1>9. ASSUME NEW app, Restart(app) PROVE ComparisonsInv'
  <2>1. Saved' = Saved
    BY <1>9 DEF Restart, Saved
  <2> QED
    BY <1>0, <1>9, <2>1 DEF Restart, ComparisonsInv
<1>10. CASE UNCHANGED vars
  BY <1>0, <1>10 DEF vars, ComparisonsInv, Saved
<1> QED
  BY <1>1, <1>2, <1>3, <1>4, <1>5, <1>6, <1>7, <1>8, <1>9, <1>10 DEF Next

-----------------------------------------------------------------------------
(* Whatever fails, overlaps or restarts, what is saved and what is about   *)
(* to be saved is sound (service.py run of both apps).                     *)
THEOREM ComparisonsInvariant == Spec => []ComparisonsInv
  BY InvInit, InvStep, PTL DEF Spec

(* Both legs of a saved comparison have been tried equally often.          *)
THEOREM ComparesFairly == Spec => []BothLegsTried
<1>1. ComparisonsInv => BothLegsTried
  BY DEF ComparisonsInv, BothLegsTried, Sound, Balanced
<1> QED
  BY <1>1, ComparisonsInvariant, PTL

(* No leg is given the run of another, nor of another comparison.          *)
THEOREM LegsShareNothing == Spec => []NoFallback
<1>1. ComparisonsInv => NoFallback
  <2> SUFFICES ASSUME ComparisonsInv, NEW c \in Saved, NEW l \in Legs
               PROVE  /\ \A r \in row[c].leg[l].runs :
                            runs[r] # NoRun /\ runs[r].comp = c /\ runs[r].leg = l
                      /\ l \notin row[c].sources => row[c].leg[l].runs = {}
    BY DEF NoFallback
  <2>1. Sound(runs, c, row[c]) /\ row[c] \in Record /\ c \in Comparison
    BY DEF ComparisonsInv, TypeOK, Saved
  <2>2. [by |-> row[c].owner, comp |-> c, leg |-> l] # NoRun
    BY <2>1, Apart DEF Record, Admission
  <2>3. l \notin row[c].sources => row[c].leg[l].runs = {}
    BY <2>1 DEF Sound, Sourced
  <2>4. ASSUME NEW r \in row[c].leg[l].runs
        PROVE  runs[r] # NoRun /\ runs[r].comp = c /\ runs[r].leg = l
    <3>1. runs[r] = [by |-> row[c].owner, comp |-> c, leg |-> l]
      BY <2>1 DEF Sound, Own
    <3> QED
      BY <2>2, <3>1
  <2> QED
    BY <2>3, <2>4
<1> QED
  BY <1>1, ComparisonsInvariant, PTL

(* A comparison names only runs its owner asked v2 for.                    *)
THEOREM OwnersOnly == Spec => []OwnersRun
<1>1. ComparisonsInv => OwnersRun
  <2> SUFFICES ASSUME ComparisonsInv, NEW c \in Saved, NEW l \in Legs,
                      NEW r \in row[c].leg[l].runs
               PROVE  runs[r].by = row[c].owner
    BY DEF OwnersRun
  <2>1. runs[r] = [by |-> row[c].owner, comp |-> c, leg |-> l]
    BY DEF ComparisonsInv, Sound, Own
  <2> QED
    BY <2>1
<1> QED
  BY <1>1, ComparisonsInvariant, PTL
=============================================================================
