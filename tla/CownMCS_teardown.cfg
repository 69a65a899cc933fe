CONSTANTS
    b1 = b1
    b2 = b2
    Behaviors = {b1, b2}
    Cowns = {1, 2, 3}
    Args <- PairArgs
    Result <- PairResult
    Null = Null
SPECIFICATION TSpec
INVARIANT
    LinkedIsAlive
CHECK_DEADLOCK FALSE
