CONSTANTS
    b1 = b1
    b2 = b2
    b3 = b3
    Behaviors = {b1, b2, b3}
    Cowns = {1, 2, 3, 4, 5, 6}
    Args <- MixedArgs
    Result <- MixedResult
    Null = Null
    Workers = {w1}
    Main = main
    PinnedCowns = {1, 3}
    Bodies <- MixedBodies
SPECIFICATION FairSpec
INVARIANTS
    BodyOwnsAll
    NobodyKeepsACown
    OutcomeIsReported
    DepthIsQueue
PROPERTIES
    NothingElseIsLost
    EverySettles
CHECK_DEADLOCK FALSE
