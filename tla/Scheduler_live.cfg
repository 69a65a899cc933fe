CONSTANTS
    t1 = t1
    t2 = t2
    t3 = t3
    t4 = t4
    t5 = t5
    N = 2
    Tasks = {t1}
    Parent <- Solo
    Batch = 1
    StopEarly = FALSE
    None = None
SPECIFICATION FairSpec
PROPERTIES
    EveryTaskRuns
    EveryWorkerExits
