------------------------------ MODULE Consent ------------------------------
(***************************************************************************)
(* What the M4 script lab promises, with no requests, rows or run ids: a   *)
(* proposal is refused or offered; an offered one may be confirmed, which  *)
(* is never taken back; only a confirmed one is ever executed.             *)
(***************************************************************************)
CONSTANTS Proposals

VARIABLES
    offered,      \* proposals a user may confirm
    confirmed,    \* proposals a user has confirmed
    executed      \* proposals that were given to v2

consentVars == <<offered, confirmed, executed>>

ConsentInit == offered = {} /\ confirmed = {} /\ executed = {}

Offer(p) ==
    /\ p \notin offered
    /\ offered' = offered \cup {p}
    /\ UNCHANGED <<confirmed, executed>>

Agree(p) ==
    /\ p \in offered
    /\ confirmed' = confirmed \cup {p}
    /\ UNCHANGED <<offered, executed>>

Execute(p) ==
    /\ p \in confirmed
    /\ executed' = executed \cup {p}
    /\ UNCHANGED <<offered, confirmed>>

ConsentNext == \E p \in Proposals : Offer(p) \/ Agree(p) \/ Execute(p)

ConsentSpec == ConsentInit /\ [][ConsentNext]_consentVars
=============================================================================
