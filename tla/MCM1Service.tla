---------------------------- MODULE MCM1Service ----------------------------
(***************************************************************************)
(* The M1 service on small instances.  A run starts from nothing (Spec)    *)
(* or, to leave out steps another run covers, from a state a course        *)
(* exercise reaches: the spec frozen and packaged (PackagedSpec), and one  *)
(* version created for it (CreatedSpec).                                   *)
(***************************************************************************)
EXTENDS M1Ladder, TLC

CONSTANTS counter, v1, v2, r1, r2, r3, t1, t2, s1, o1, alice, bob

MCSpecs == {counter}
MCOracles == {o1}
MCUsers == {alice, bob}
MCOwnerOf == [s \in {counter} |-> alice]
NoThreads == {}
OneSpecThread == {s1}
OneThread == {t1}
TwoThreads == {t1, t2}
ThreadAndRunSymmetry ==
    Permutations({t1, t2}) \cup Permutations({r1, r2, r3})
OneVersion == {v1}
TwoVersions == {v1, v2}
TwoRuns == {r1, r2}
ThreeRuns == {r1, r2, r3}
Checking == {"create", "edit", "verify", "sim", "poll"}
CheckingOnly == {"edit", "verify", "sim", "poll"}
Climbing == {"edit", "verify", "sim", "gds", "poll"}
SuccessOrFailure == {"succeeded", "failed"}
SuccessOnly == {"succeeded"}

-----------------------------------------------------------------------------
Packed ==
    /\ session = [s \in Specs |-> "frozen"]
    /\ sessionDb = session
    /\ package = [s \in Specs |-> o1]
    /\ packageDb = package
    /\ specReq = [t \in SpecThreads |-> Idle]
    /\ runOwnerDb = [r \in Runs |-> None]
    /\ evidence = {} /\ evidenceDb = {}
    /\ outcome = {} /\ outcomeDb = {}
    /\ req = [t \in Threads |-> Idle]

(* The spec is frozen and packaged; nothing else has happened.             *)
PackagedInit ==
    /\ Packed
    /\ version = [v \in Versions |-> None]
    /\ versionDb = version
    /\ runs = [r \in Runs |-> None]

PackagedSpec == PackagedInit /\ [][Next]_vars

(* v1 has been created, and nothing has been submitted for it.             *)
CreatedInit ==
    /\ Packed
    /\ version = [v \in Versions |->
                     IF v = v1 THEN NewVersion(counter, None) ELSE None]
    /\ versionDb = version
    /\ runs = [r \in Runs |-> None]

CreatedSpec == CreatedInit /\ [][Next]_vars

CreatedFairSpec ==
    /\ CreatedSpec
    /\ \A t \in Threads : WF_vars(Serve(t))
    /\ \A r \in Runs : SF_vars(\E t \in Threads, u \in Users : Poll(t, r, u))
=============================================================================
