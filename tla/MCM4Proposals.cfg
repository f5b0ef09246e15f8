SPECIFICATION Spec
CONSTANTS
    p1 = p1
    p2 = p2
    r1 = r1
    r2 = r2
    t1 = t1
    t2 = t2
    None = None
    Proposals <- MCProposals
    Runs <- MCRuns
    Threads <- TwoThreads
INVARIANTS ProposalsInv ExecutedWasConfirmed RowsAreHonest
PROPERTIES KeepsItsPromise
