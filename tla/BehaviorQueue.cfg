CONSTANTS
    q1 = q1
    q2 = q2
    w1 = w1
    w2 = w2
    Queues = {q1, q2}
    Nodes = {n1, n2, n3}
    Producers = {p1, p2}
    Owners = {w1, w2}
    Own <- TwoQueues
    Victim <- OneThief
    Null = Null
SPECIFICATION FairSpec
INVARIANTS
    SlotIsFree
PROPERTIES
    ImplementsQueues
    EveryNodeRuns
