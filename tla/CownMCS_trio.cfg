CONSTANTS
    b1 = b1
    b2 = b2
    b3 = b3
    Behaviors = {b1, b2, b3}
    Cowns = {1, 2, 3, 4, 5}
    Args <- TrioArgs
    Result <- TrioResult
    Null = Null
SPECIFICATION FairSpec
INVARIANTS
    MutualExclusion
    DispatchedWhenGranted
    PrevIsUnlinked
    NoUseAfterFree
    Reclaimed
PROPERTIES
    ImplementsBOC
    EveryBehaviorRuns
