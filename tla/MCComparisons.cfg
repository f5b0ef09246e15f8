\* Both apps, run twice by overlapping requests.
CONSTANTS
    c2 = c2
    c3 = c3
    u1 = u1
    u2 = u2
    r1 = r1
    r2 = r2
    r3 = r3
    r4 = r4
    t1 = t1
    t2 = t2
    None = None
    M2 <- OneM2
    M3 <- OneM3
    Users <- TwoUsers
    Runs <- FourRuns
    Threads <- TwoThreads
    MaxTries = 2
SPECIFICATION Spec
SYMMETRY Symmetry
INVARIANTS ComparisonsInv BothLegsTried NoFallback OwnersRun
