SPECIFICATION CreatedSpec
CONSTANTS
    counter = counter
    v1 = v1
    v2 = v2
    r1 = r1
    r2 = r2
    r3 = r3
    t1 = t1
    t2 = t2
    s1 = s1
    o1 = o1
    alice = alice
    bob = bob
    None = None
    Specs <- MCSpecs
    Taught <- MCSpecs
    Oracles <- MCOracles
    OwnerOf <- MCOwnerOf
    SpecThreads <- NoThreads
    Threads <- TwoThreads
    Versions <- OneVersion
    Runs <- ThreeRuns
    Endpoints <- Climbing
    Endings <- SuccessOrFailure
    Users <- MCUsers
SYMMETRY ThreadAndRunSymmetry
INVARIANTS ServiceInv EvidenceIsSound OnlyOwnersObserve
PROPERTIES ClimbsTheLadder PartedByOverlapOnly
