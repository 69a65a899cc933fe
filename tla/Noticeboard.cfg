CONSTANTS
    n1 = n1
    n2 = n2
    n3 = n3
    n4 = n4
    w1 = w1
    w2 = w2
    k1 = k1
    k2 = k2
    Workers = {w1, w2}
    Mutator = mutator
    Main = main
    Notices = {n1, n2, n3, n4}
    Keys = {k1, k2}
    Kind <- Kinds
    Key <- KeyOf
    Embeds = {n1, n2}
    Program <- Posts
    MaxEntries = 1
    MaxCycles = 2
    None = None
SPECIFICATION FairSpec
INVARIANTS
    OneViewPerBehavior
    ViewIsFresh
    UpdateIsAtomic
    NamedIsAlive
    
    CycleSeesEverything

    
CHECK_DEADLOCK FALSE
