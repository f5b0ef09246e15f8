SPECIFICATION SpecSpec
CONSTANTS
    counter = counter
    custom = custom
    t1 = t1
    t2 = t2
    o1 = o1
    o2 = o2
    None = None
    Specs <- MCSpecs
    Taught <- MCTaught
    SpecThreads <- MCSpecThreads
    Oracles <- MCOracles
INVARIANTS TaughtSpecsAreVerifiable
