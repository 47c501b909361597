\* Two workers, a sequential and a parallel query; one send may be lost.
CONSTANTS
    s1 = s1 s2 = s2 p1 = p1 p2 = p2 p3 = p3 n1 = n1
    Queries = {s1, p1}
    Workers = {w1, w2}
    PlanIds = {i1, i2}
    NodeIds = {0, 1, 2, 3}
    Kind <- MCKind
    Batches <- MCBatches
    UniqueDraws = TRUE
    MaxDrops = 1
    NoQuery = NoQuery
    NoPlan = NoPlan
SPECIFICATION FairSpec
PROPERTIES
    EventuallyFinished
    ShutdownFinishes
    JoinReturns
\* After the destructor nothing runs.
CHECK_DEADLOCK FALSE
