SPECIFICATION FairSpec
CONSTANTS
    Versions = {v1, v2}
    Chains = {c1, c2}
    Checkable = {v1}
    None = None
    MayFail = TRUE
INVARIANTS WebInv VerdictsShownAreEarned VerificationIsWatched
PROPERTIES VerificationIsObserved ClicksClimbTheLadder
