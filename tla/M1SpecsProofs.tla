--------------------------- MODULE M1SpecsProofs ---------------------------
(***************************************************************************)
(* Proofs about M1Specs, for any number of specs, threads and oracles.     *)
(*                                                                         *)
(* DurableIsServed alone is not inductive: a request about to write a row  *)
(* must already have put the same news in memory.  SpecWritesFollowMemory  *)
(* says so, and nothing but a restart, which drops every request, ever     *)
(* takes a session out of memory or out of "frozen".  RejectionsAgree is     *)
(* what RejectedForGood needs in the same way.                             *)
(***************************************************************************)
EXTENDS M1Specs, TLAPS

LEMMA SpecInitInv == SpecInit => SpecInv
BY SpecsAssumption DEF SpecInit, SpecInv, SpecTypeOK, SpecWritesFollowMemory,
   DurableIsServed, RejectionsAgree, SpecRequest, Idle, Rejected, SessionState, Assessed

(* Every step keeps the invariant: one case per action.                    *)
LEMMA SpecNextInv == SpecInv /\ [SpecNext]_specVars => SpecInv'
<1> SUFFICES ASSUME SpecInv, [SpecNext]_specVars PROVE SpecInv'
  OBVIOUS
<1> USE SpecsAssumption
<1> USE DEF SpecInv, SpecTypeOK, SpecGoes, Rejected, Assessed, SessionState, SpecRequest, Idle
<1>1. ASSUME NEW t \in SpecThreads, NEW s \in Specs, NEW state \in Assessed,
             AssessMem(t, s, state)
      PROVE  SpecInv'
  <2>1. SpecTypeOK'
    BY <1>1 DEF AssessMem
  <2>2. SpecWritesFollowMemory'
    BY <1>1 DEF AssessMem, SpecWritesFollowMemory
  <2>3. RejectionsAgree'
    BY <1>1 DEF AssessMem, RejectionsAgree, SpecWritesFollowMemory, DurableIsServed
  <2>4. DurableIsServed'
    BY <1>1 DEF AssessMem, DurableIsServed
  <2> QED BY <2>1, <2>2, <2>3, <2>4
<1>2. ASSUME NEW t \in SpecThreads, AssessSave(t) PROVE SpecInv'
  <2>1. SpecTypeOK'
    BY <1>2 DEF AssessSave
  <2>2. SpecWritesFollowMemory'
    BY <1>2 DEF AssessSave, SpecWritesFollowMemory
  <2>3. RejectionsAgree'
    BY <1>2 DEF AssessSave, RejectionsAgree, SpecWritesFollowMemory, DurableIsServed
  <2>4. DurableIsServed'
    BY <1>2 DEF AssessSave, DurableIsServed, SpecWritesFollowMemory
  <2> QED BY <2>1, <2>2, <2>3, <2>4
<1>3. ASSUME NEW t \in SpecThreads, NEW s \in Specs, FreezeCheck(t, s)
      PROVE  SpecInv'
  <2>1. SpecTypeOK'
    BY <1>3 DEF FreezeCheck
  <2>2. SpecWritesFollowMemory'
    BY <1>3 DEF FreezeCheck, SpecWritesFollowMemory
  <2>3. RejectionsAgree'
    BY <1>3 DEF FreezeCheck, RejectionsAgree, SpecWritesFollowMemory, DurableIsServed
  <2>4. DurableIsServed'
    BY <1>3 DEF FreezeCheck, DurableIsServed
  <2> QED BY <2>1, <2>2, <2>3, <2>4
<1>4. ASSUME NEW t \in SpecThreads, FreezeMem(t) PROVE SpecInv'
  <2>1. SpecTypeOK'
    BY <1>4 DEF FreezeMem
  <2>2. SpecWritesFollowMemory'
    BY <1>4 DEF FreezeMem, SpecWritesFollowMemory
  <2>3. RejectionsAgree'
    BY <1>4 DEF FreezeMem, RejectionsAgree, SpecWritesFollowMemory, DurableIsServed
  <2>4. DurableIsServed'
    BY <1>4 DEF FreezeMem, DurableIsServed
  <2> QED BY <2>1, <2>2, <2>3, <2>4
<1>5. ASSUME NEW t \in SpecThreads, FreezeSave(t) PROVE SpecInv'
  <2>1. SpecTypeOK'
    BY <1>5 DEF FreezeSave
  <2>2. SpecWritesFollowMemory'
    BY <1>5 DEF FreezeSave, SpecWritesFollowMemory
  <2>3. RejectionsAgree'
    BY <1>5 DEF FreezeSave, RejectionsAgree, SpecWritesFollowMemory, DurableIsServed
  <2>4. DurableIsServed'
    BY <1>5 DEF FreezeSave, DurableIsServed, SpecWritesFollowMemory
  <2> QED BY <2>1, <2>2, <2>3, <2>4
<1>6. ASSUME NEW t \in SpecThreads, NEW o \in Oracles, UploadOracle(t, o)
      PROVE  SpecInv'
  <2>1. SpecTypeOK'
    BY <1>6 DEF UploadOracle
  <2>2. SpecWritesFollowMemory'
    BY <1>6 DEF UploadOracle, SpecWritesFollowMemory
  <2>3. RejectionsAgree'
    BY <1>6 DEF UploadOracle, RejectionsAgree, SpecWritesFollowMemory, DurableIsServed
  <2>4. DurableIsServed'
    BY <1>6 DEF UploadOracle, DurableIsServed
  <2> QED BY <2>1, <2>2, <2>3, <2>4
<1>7. ASSUME NEW t \in SpecThreads, UploadFails(t) PROVE SpecInv'
  BY <1>7 DEF UploadFails, SpecWritesFollowMemory, DurableIsServed, RejectionsAgree
<1>8. ASSUME NEW t \in SpecThreads, RegisterCheck(t) PROVE SpecInv'
  <2>1. SpecTypeOK'
    BY <1>8 DEF RegisterCheck
  <2>2. SpecWritesFollowMemory'
    BY <1>8 DEF RegisterCheck, SpecWritesFollowMemory
  <2>3. RejectionsAgree'
    BY <1>8 DEF RegisterCheck, RejectionsAgree, SpecWritesFollowMemory, DurableIsServed
  <2>4. DurableIsServed'
    BY <1>8 DEF RegisterCheck, DurableIsServed
  <2> QED BY <2>1, <2>2, <2>3, <2>4
<1>9. ASSUME NEW t \in SpecThreads, RegisterMem(t) PROVE SpecInv'
  <2>1. SpecTypeOK'
    BY <1>9 DEF RegisterMem
  <2>2. SpecWritesFollowMemory'
    BY <1>9 DEF RegisterMem, SpecWritesFollowMemory
  <2>3. RejectionsAgree'
    BY <1>9 DEF RegisterMem, RejectionsAgree, SpecWritesFollowMemory, DurableIsServed
  <2>4. DurableIsServed'
    BY <1>9 DEF RegisterMem, DurableIsServed
  <2> QED BY <2>1, <2>2, <2>3, <2>4
<1>10. ASSUME NEW t \in SpecThreads, RegisterSave(t) PROVE SpecInv'
  <2>1. SpecTypeOK'
    BY <1>10 DEF RegisterSave
  <2>2. SpecWritesFollowMemory'
    BY <1>10 DEF RegisterSave, SpecWritesFollowMemory
  <2>3. RejectionsAgree'
    BY <1>10 DEF RegisterSave, RejectionsAgree, SpecWritesFollowMemory, DurableIsServed
  <2>4. DurableIsServed'
    BY <1>10 DEF RegisterSave, DurableIsServed, SpecWritesFollowMemory
  <2> QED BY <2>1, <2>2, <2>3, <2>4
<1>11. ASSUME SpecRestart PROVE SpecInv'
  BY <1>11 DEF SpecRestart, SpecWritesFollowMemory, DurableIsServed, RejectionsAgree
<1>12. CASE UNCHANGED specVars
  BY <1>12 DEF specVars, SpecWritesFollowMemory, DurableIsServed, RejectionsAgree
<1> QED
  BY <1>1, <1>2, <1>3, <1>4, <1>5, <1>6, <1>7, <1>8, <1>9, <1>10, <1>11, <1>12
  DEF SpecNext, SpecStep

THEOREM SpecInvariant == SpecSpec => []SpecInv
BY SpecInitInv, SpecNextInv, PTL DEF SpecSpec

(* Every variable keeps its type, in every interleaving of assess, freeze  *)
(* and package registration with crashes.                                  *)
THEOREM SpecTypeCorrect == SpecSpec => []SpecTypeOK
BY SpecInvariant, PTL DEF SpecInv

(* What a restart of M1Service would load is already being served.         *)
THEOREM SpecDurability == SpecSpec => []DurableIsServed
BY SpecInvariant, PTL DEF SpecInv

(* No interleaving turns a rejected spec into anything else: freeze_spec's *)
(* check holds although the session is replaced later, without a lock.     *)
LEMMA RejectedStep ==
    SpecInv /\ [SpecNext]_specVars
        => [\A s \in Specs :
               session[s] \in Rejected => session'[s] \in {session[s], None}]_specVars
<1> SUFFICES ASSUME SpecInv, SpecNext, NEW s \in Specs, session[s] \in Rejected
             PROVE  session'[s] \in {session[s], None}
  BY DEF specVars
<1> USE SpecsAssumption DEF SpecInv, SpecTypeOK, RejectionsAgree, Rejected
<1>1. ASSUME SpecRestart PROVE session'[s] \in {session[s], None}
  BY <1>1 DEF SpecRestart
<1>2. ASSUME NEW t \in SpecThreads, NEW u \in Specs, NEW state \in Assessed,
             AssessMem(t, u, state)
      PROVE  session'[s] \in {session[s], None}
  BY <1>2 DEF AssessMem, SessionState, Assessed
<1>3. ASSUME NEW t \in SpecThreads, FreezeMem(t)
      PROVE  session'[s] \in {session[s], None}
  BY <1>3 DEF FreezeMem
<1>4. ASSUME UNCHANGED session PROVE session'[s] \in {session[s], None}
  BY <1>4
<1> QED
  BY <1>1, <1>2, <1>3, <1>4
  DEF SpecNext, SpecStep, AssessSave, FreezeCheck, FreezeSave, UploadOracle,
      UploadFails, RegisterCheck, RegisterMem, RegisterSave

THEOREM RejectionIsFinal == SpecSpec => RejectedForGood
BY SpecInvariant, RejectedStep, PTL DEF SpecSpec, RejectedForGood

-----------------------------------------------------------------------------
(* Memory and rows.  What a step does to the writes that are owed: it may  *)
(* only add to those of its own thread.                                    *)
Owes(t) == /\ specReq[t].at = "assess_save" => session[specReq[t].spec] = specReq[t].state
           /\ specReq[t].at = "freeze_save" => session[specReq[t].spec] = "frozen"
           /\ specReq[t].at = "register_save" => package[specReq[t].spec] = specReq[t].oracle

(* The first write of a session: it becomes owed, and no one else owes it, *)
(* for the writes stay apart.                                              *)
LEMMA SessionWritten ==
    ASSUME SpecTypeOK, SpecInStep, SpecWritesApart', NEW t \in SpecThreads, NEW s \in Specs,
           NEW x \in SessionState, NEW q \in SpecRequest,
           SessionOwed(q) = {s}, PackageOwed(q) = {}, PackageOwed(specReq[t]) = {},
           SessionOwed(specReq[t]) \subseteq {s},
           q.at = "assess_save" => q.state = x, q.at = "freeze_save" => x = "frozen",
           session' = [session EXCEPT ![s] = x], SpecGoes(t, q),
           UNCHANGED <<sessionDb, package, packageDb>>
    PROVE  SpecInStep'
<1> USE DEF SpecTypeOK, SpecGoes
<1>1. specReq'[t] = q /\ \A u \in SpecThreads \ {t} : specReq'[u] = specReq[u]
  OBVIOUS
<1>2. \A u \in SpecThreads \ {t} : s \notin SessionOwed(specReq[u])
  BY <1>1 DEF SpecWritesApart
<1>3. SpecRowsMatch'
  <2> SUFFICES ASSUME NEW r \in Specs
               PROVE  /\ (\A u \in SpecThreads : r \notin SessionOwed(specReq'[u])) => sessionDb'[r] = session'[r]
                      /\ (\A u \in SpecThreads : r \notin PackageOwed(specReq'[u])) => packageDb'[r] = package'[r]
    BY DEF SpecRowsMatch, SessionOwed, PackageOwed
  <2>1. ASSUME \A u \in SpecThreads : r \notin SessionOwed(specReq'[u]) PROVE sessionDb'[r] = session'[r]
    <3>1. r # s
      BY <1>1, <2>1
    <3>2. \A u \in SpecThreads : r \notin SessionOwed(specReq[u])
      BY <1>1, <2>1, <3>1
    <3> QED
      BY <3>1, <3>2 DEF SpecInStep, SpecRowsMatch
  <2>2. ASSUME \A u \in SpecThreads : r \notin PackageOwed(specReq'[u]) PROVE packageDb'[r] = package'[r]
    <3>1. \A u \in SpecThreads : r \notin PackageOwed(specReq[u])
      BY <1>1, <2>2
    <3> QED
      BY <3>1 DEF SpecInStep, SpecRowsMatch
  <2> QED
    BY <2>1, <2>2
<1>4. ASSUME NEW u \in SpecThreads PROVE Owes(u)'
  <2>1. CASE u = t
    BY <1>1, <2>1 DEF Owes, SessionOwed, PackageOwed
  <2>2. CASE u # t
    <3>1. Owes(u)
      BY DEF SpecInStep, Owes
    <3>2. specReq[u].at \in {"assess_save", "freeze_save"} => specReq[u].spec # s
      BY <1>2, <2>2 DEF SessionOwed
    <3>3. specReq[u].at \in {"assess_save", "freeze_save"} => specReq[u].spec \in Specs
      BY DEF SpecRequest, Idle
    <3> QED
      BY <1>1, <2>2, <3>1, <3>2, <3>3 DEF Owes
  <2> QED
    BY <2>1, <2>2
<1> QED
  BY <1>3, <1>4 DEF SpecInStep, Owes

(* A step of a request that owes nothing, before or after it.              *)
LEMMA NothingOwed ==
    ASSUME SpecTypeOK, SpecInStep, NEW t \in SpecThreads, NEW q \in SpecRequest,
           q.at \notin {"assess_save", "freeze_save", "register_save"},
           specReq[t].at \notin {"assess_save", "freeze_save", "register_save"},
           SpecGoes(t, q), UNCHANGED <<session, sessionDb, package, packageDb>>
    PROVE  SpecInStep'
<1>1. specReq'[t] = q /\ \A u \in SpecThreads \ {t} : specReq'[u] = specReq[u]
  BY DEF SpecTypeOK, SpecGoes
<1>2. \A u \in SpecThreads : /\ SessionOwed(specReq'[u]) = SessionOwed(specReq[u])
                             /\ PackageOwed(specReq'[u]) = PackageOwed(specReq[u])
  BY <1>1 DEF SessionOwed, PackageOwed
<1>3. SpecRowsMatch' /\ SpecWritesApart'
  BY <1>2 DEF SpecInStep, SpecRowsMatch, SpecWritesApart, SessionOwed, PackageOwed
<1>4. \A u \in SpecThreads : Owes(u)'
  BY <1>1 DEF SpecInStep, Owes
<1> QED
  BY <1>3, <1>4 DEF SpecInStep, Owes

(* The second write of a session pays what is owed: nobody else owes it.   *)
LEMMA SessionPaid ==
    ASSUME SpecTypeOK, SpecInStep, NEW t \in SpecThreads, NEW s \in Specs, NEW q \in SpecRequest,
           SessionOwed(specReq[t]) = {s}, SessionOwed(q) = {}, PackageOwed(q) = {},
           sessionDb' = [sessionDb EXCEPT ![s] = session[s]], SpecGoes(t, q),
           UNCHANGED <<session, package, packageDb>>
    PROVE  SpecInStep'
<1>1. specReq'[t] = q /\ \A u \in SpecThreads \ {t} : specReq'[u] = specReq[u]
  BY DEF SpecTypeOK, SpecGoes
<1>2. PackageOwed(specReq[t]) = {}
  BY DEF SessionOwed, PackageOwed
<1>3. \A u \in SpecThreads : /\ SessionOwed(specReq'[u]) = SessionOwed(specReq[u]) \ (IF u = t THEN {s} ELSE {})
                             /\ PackageOwed(specReq'[u]) = PackageOwed(specReq[u])
  BY <1>1, <1>2
<1>4. SpecWritesApart'
  BY <1>3 DEF SpecInStep, SpecWritesApart, SessionOwed, PackageOwed
<1>5. SpecRowsMatch'
  <2> SUFFICES ASSUME NEW r \in Specs
               PROVE  /\ (\A u \in SpecThreads : r \notin SessionOwed(specReq'[u])) => sessionDb'[r] = session'[r]
                      /\ (\A u \in SpecThreads : r \notin PackageOwed(specReq'[u])) => packageDb'[r] = package'[r]
    BY DEF SpecRowsMatch, SessionOwed, PackageOwed
  <2>1. CASE r = s
    BY <1>3, <2>1 DEF SpecInStep, SpecRowsMatch, SpecTypeOK
  <2>2. CASE r # s
    BY <1>3, <2>2 DEF SpecInStep, SpecRowsMatch, SpecTypeOK
  <2> QED
    BY <2>1, <2>2
<1>6. \A u \in SpecThreads : Owes(u)'
  BY <1>1 DEF SpecInStep, Owes, SessionOwed, PackageOwed
<1> QED
  BY <1>4, <1>5, <1>6 DEF SpecInStep, Owes

(* The two writes of a package.                                            *)
LEMMA PackageStep ==
    ASSUME SpecTypeOK, SpecInStep, SpecWritesApart', NEW t \in SpecThreads,
           RegisterMem(t) \/ RegisterSave(t)
    PROVE  SpecInStep'
<1> DEFINE s == specReq[t].spec
           o == specReq[t].oracle
           q == IF specReq[t].at = "register_mem" THEN [specReq[t] EXCEPT !.at = "register_save"] ELSE Idle
<1>1. s \in Specs /\ o \in Oracles /\ specReq[t].at \in {"register_mem", "register_save"}
      /\ specReq[t] = [at |-> specReq[t].at, spec |-> s, oracle |-> o]
  BY DEF RegisterMem, RegisterSave, SpecTypeOK, SpecRequest, Idle
<1>2. SpecGoes(t, q) /\ UNCHANGED <<session, sessionDb>>
  BY <1>1 DEF RegisterMem, RegisterSave
<1>3. specReq'[t] = q /\ \A u \in SpecThreads \ {t} : specReq'[u] = specReq[u]
  BY <1>2 DEF SpecTypeOK, SpecGoes
<1>4. \/ q.at = "register_save" /\ q.spec = s /\ q.oracle = o
      \/ q = Idle /\ specReq[t].at = "register_save"
  BY <1>1
<1> HIDE DEF q
<1>5. \A u \in SpecThreads \ {t} : s \notin PackageOwed(specReq[u])
  <2> SUFFICES ASSUME NEW u \in SpecThreads \ {t} PROVE s \notin PackageOwed(specReq[u])
    OBVIOUS
  <2>1. CASE q = Idle /\ specReq[t].at = "register_save"
    <3>1. PackageOwed(specReq[t]) = {s}
      BY <2>1 DEF PackageOwed
    <3>2. PackageOwed(specReq[t]) \cap PackageOwed(specReq[u]) = {}
      BY DEF SpecInStep, SpecWritesApart
    <3> QED
      BY <3>1, <3>2
  <2>2. CASE q.at = "register_save" /\ q.spec = s
    <3>1. PackageOwed(specReq'[t]) = {s}
      BY <1>3, <2>2 DEF PackageOwed
    <3>2. PackageOwed(specReq'[t]) \cap PackageOwed(specReq'[u]) = {}
      BY DEF SpecWritesApart, PackageOwed
    <3> QED
      BY <1>3, <3>1, <3>2
  <2> QED
    BY <1>4, <2>1, <2>2
<1>6. \A u \in SpecThreads : SessionOwed(specReq'[u]) = SessionOwed(specReq[u])
  BY <1>1, <1>3, <1>4 DEF SessionOwed, Idle
<1>7. \A u \in SpecThreads \ {t} : PackageOwed(specReq'[u]) = PackageOwed(specReq[u])
  BY <1>3
<1>8. \A r \in Specs \ {s} : package'[r] = package[r] /\ packageDb'[r] = packageDb[r]
  BY DEF RegisterMem, RegisterSave, SpecTypeOK
<1>9. \/ q.at = "register_save" /\ package'[s] = o
      \/ q = Idle /\ packageDb'[s] = o /\ package'[s] = o
  <2>1. CASE RegisterMem(t)
    BY <2>1, <1>1 DEF RegisterMem, SpecTypeOK, q
  <2>2. CASE RegisterSave(t)
    BY <2>2, <1>1 DEF RegisterSave, SpecTypeOK, SpecInStep, q
  <2> QED
    BY <2>1, <2>2
<1>10. SpecRowsMatch'
  <2> SUFFICES ASSUME NEW r \in Specs
               PROVE  /\ (\A u \in SpecThreads : r \notin SessionOwed(specReq'[u])) => sessionDb'[r] = session'[r]
                      /\ (\A u \in SpecThreads : r \notin PackageOwed(specReq'[u])) => packageDb'[r] = package'[r]
    BY DEF SpecRowsMatch, SessionOwed, PackageOwed
  <2>1. (\A u \in SpecThreads : r \notin SessionOwed(specReq'[u])) => sessionDb'[r] = session'[r]
    BY <1>2, <1>6 DEF SpecInStep, SpecRowsMatch
  <2>2. ASSUME \A u \in SpecThreads : r \notin PackageOwed(specReq'[u]) PROVE packageDb'[r] = package'[r]
    <3>1. CASE r = s
      <4>1. PackageOwed(q) = {s} \/ (packageDb'[s] = o /\ package'[s] = o)
        BY <1>4, <1>9 DEF PackageOwed, Idle
      <4> QED
        BY <1>3, <2>2, <3>1, <4>1
    <3>2. CASE r # s
      <4>1. r \notin PackageOwed(specReq[t])
        BY <3>2 DEF PackageOwed
      <4> QED
        BY <1>7, <1>8, <2>2, <3>2, <4>1 DEF SpecInStep, SpecRowsMatch
    <3> QED
      BY <3>1, <3>2
  <2> QED
    BY <2>1, <2>2
<1>11. ASSUME NEW u \in SpecThreads PROVE Owes(u)'
  <2>1. CASE u = t
    <3>1. specReq'[u] = q
      BY <1>3, <2>1
    <3>2. q.at \in {"register_save", "idle"} /\ (q.at = "register_save" => package'[q.spec] = q.oracle)
      BY <1>4, <1>9 DEF Idle
    <3> QED
      BY <3>1, <3>2 DEF Owes
  <2>2. CASE u # t
    <3>1. Owes(u) /\ specReq'[u] = specReq[u]
      BY <1>3, <2>2 DEF SpecInStep, Owes
    <3>2. specReq[u].at = "register_save" => specReq[u].spec \in Specs \ {s}
      <4>1. specReq[u].at = "register_save" => specReq[u].spec \in Specs
        BY DEF SpecTypeOK, SpecRequest, Idle
      <4>2. specReq[u].at = "register_save" => s # specReq[u].spec
        BY <1>5, <2>2 DEF PackageOwed
      <4> QED
        BY <4>1, <4>2
    <3> QED
      BY <1>2, <1>8, <3>1, <3>2 DEF Owes
  <2> QED
    BY <2>1, <2>2
<1> QED
  BY <1>10, <1>11 DEF SpecInStep, Owes

(* From memory and rows in step, a step leaves them in step, unless it     *)
(* brings a second request between the writes of a record.                 *)
LEMMA SpecStaysInStep ==
    ASSUME SpecInv, SpecInStep, [SpecNext]_specVars, SpecWritesApart'
    PROVE  SpecInStep'
<1> USE SpecsAssumption DEF SpecInv
<1>1. ASSUME NEW t \in SpecThreads, NEW s \in Specs, NEW state \in Assessed, AssessMem(t, s, state)
      PROVE  SpecInStep'
  <2> DEFINE q == [at |-> "assess_save", spec |-> s, state |-> state]
  <2>1. /\ q \in SpecRequest /\ q.at = "assess_save" /\ q.state = state
        /\ SessionOwed(q) = {s} /\ PackageOwed(q) = {}
    BY DEF SpecRequest, SessionOwed, PackageOwed
  <2>2. SessionOwed(specReq[t]) = {} /\ PackageOwed(specReq[t]) = {}
    BY <1>1 DEF AssessMem, SessionOwed, PackageOwed, Idle
  <2>3. /\ session' = [session EXCEPT ![s] = state] /\ SpecGoes(t, q)
        /\ UNCHANGED <<sessionDb, package, packageDb>>
    BY <1>1 DEF AssessMem
  <2>4. state \in SessionState
    BY DEF SessionState
  <2> HIDE DEF q
  <2> QED
    BY <2>1, <2>2, <2>3, <2>4, SessionWritten
<1>2. ASSUME NEW t \in SpecThreads, FreezeMem(t) PROVE SpecInStep'
  <2> DEFINE s == specReq[t].spec
             q == [specReq[t] EXCEPT !.at = "freeze_save"]
  <2>1. s \in Specs /\ q \in SpecRequest /\ q.at = "freeze_save" /\ q.spec = s
    BY <1>2 DEF FreezeMem, SpecTypeOK, SpecRequest, Idle
  <2>2. /\ SessionOwed(q) = {s} /\ PackageOwed(q) = {}
        /\ SessionOwed(specReq[t]) = {} /\ PackageOwed(specReq[t]) = {}
    BY <1>2, <2>1 DEF FreezeMem, SessionOwed, PackageOwed
  <2>3. /\ session' = [session EXCEPT ![s] = "frozen"] /\ SpecGoes(t, q)
        /\ UNCHANGED <<sessionDb, package, packageDb>>
    BY <1>2 DEF FreezeMem
  <2>4. "frozen" \in SessionState
    BY DEF SessionState
  <2> HIDE DEF s, q
  <2> QED
    BY <2>1, <2>2, <2>3, <2>4, SessionWritten
<1>3. ASSUME NEW t \in SpecThreads, AssessSave(t) \/ FreezeSave(t) PROVE SpecInStep'
  <2> DEFINE s == specReq[t].spec
             q == IF specReq[t].at = "freeze_save" /\ s \in Taught THEN [specReq[t] EXCEPT !.at = "upload"] ELSE Idle
  <2>1. s \in Specs /\ q \in SpecRequest /\ q.at \in {"upload", "idle"}
    BY <1>3 DEF AssessSave, FreezeSave, SpecTypeOK, SpecRequest, Idle
  <2>2. SessionOwed(q) = {} /\ PackageOwed(q) = {} /\ SessionOwed(specReq[t]) = {s}
    BY <1>3, <2>1 DEF AssessSave, FreezeSave, SessionOwed, PackageOwed
  <2>3. sessionDb' = [sessionDb EXCEPT ![s] = session[s]] /\ SpecGoes(t, q)
        /\ UNCHANGED <<session, package, packageDb>>
    BY <1>3 DEF AssessSave, FreezeSave, SpecInStep
  <2> HIDE DEF s, q
  <2> QED
    BY <2>1, <2>2, <2>3, SessionPaid
<1>4. ASSUME NEW t \in SpecThreads, RegisterMem(t) \/ RegisterSave(t) PROVE SpecInStep'
  BY <1>4, PackageStep
<1>5. ASSUME NEW t \in SpecThreads, NEW s \in Specs, FreezeCheck(t, s) PROVE SpecInStep'
  <2>1. [at |-> "freeze_mem", spec |-> s] \in SpecRequest
    BY DEF SpecRequest
  <2> QED
    BY <1>5, <2>1, NothingOwed DEF FreezeCheck, Idle
<1>6. ASSUME NEW t \in SpecThreads, NEW o \in Oracles, UploadOracle(t, o) PROVE SpecInStep'
  <2>1. [at |-> "register", spec |-> specReq[t].spec, oracle |-> o] \in SpecRequest
    BY <1>6 DEF UploadOracle, SpecTypeOK, SpecRequest, Idle
  <2> QED
    BY <1>6, <2>1, NothingOwed DEF UploadOracle
<1>7. ASSUME NEW t \in SpecThreads, UploadFails(t) \/ RegisterCheck(t) PROVE SpecInStep'
  <2>1. PICK q \in {Idle, [specReq[t] EXCEPT !.at = "register_mem"]} :
           /\ SpecGoes(t, q) /\ UNCHANGED <<session, sessionDb, package, packageDb>>
           /\ specReq[t].at \in {"upload", "register"}
           /\ specReq[t].at = "upload" => q = Idle
    BY <1>7 DEF UploadFails, RegisterCheck
  <2>2. q \in SpecRequest /\ q.at \in {"idle", "register_mem"}
    BY <2>1 DEF SpecTypeOK, SpecRequest, Idle
  <2> QED
    BY <2>1, <2>2, NothingOwed
<1>8. ASSUME SpecRestart PROVE SpecInStep'
  <2>1. \A t \in SpecThreads : specReq'[t] = Idle
    BY <1>8 DEF SpecRestart
  <2> QED
    BY <1>8, <2>1 DEF SpecRestart, SpecInStep, SpecRowsMatch, SpecWritesApart, SessionOwed, PackageOwed, Idle
<1>9. CASE UNCHANGED specVars
  BY <1>9 DEF specVars, SpecInStep, SpecRowsMatch, SpecWritesApart, SessionOwed, PackageOwed
<1> QED
  BY <1>1, <1>2, <1>3, <1>4, <1>5, <1>6, <1>7, <1>8, <1>9 DEF SpecNext, SpecStep

LEMMA SpecStartsInStep == SpecInit => SpecInStep
BY DEF SpecInit, SpecInStep, SpecRowsMatch, SpecWritesApart, SessionOwed, PackageOwed, Idle

(* A row of the specification half parts from memory only when two         *)
(* requests are between the two writes of its record.                      *)
THEOREM SpecOverlapAlone == SpecSpec => SpecPartedByOverlapOnly
<1>1. SpecInv /\ [SpecNext]_specVars => [SpecInStep /\ SpecWritesApart' => SpecInStep']_specVars
  BY SpecStaysInStep
<1> QED
  BY <1>1, SpecInvariant, PTL DEF SpecSpec, SpecPartedByOverlapOnly
=============================================================================
