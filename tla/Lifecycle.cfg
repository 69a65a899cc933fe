CONSTANTS
    b1 = b1
    b2 = b2
    b3 = b3
    main = main
    other = other
    None = None
    Callers = {b1, b2, b3}
    Waiters = {main, other}
    Parent <- Nested
    Sharing = {b1, b3}
    Pinned = {b3}
    Workers = 1
    MaxStarts = 2
SPECIFICATION FairSpec
INVARIANTS
    Conservation
    NobodyOversleeps
    QuietMeansDone
    
PROPERTIES
    WaitEnds
CHECK_DEADLOCK FALSE
