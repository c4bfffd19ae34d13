SPECIFICATION FairSpec
CONSTANTS
    a = a
    b = b
    w1 = w1
    r1 = r1
    None = None
    Group <- MCGroup
    Worker <- MCWorker
    Request <- MCRequest
    MaxLane <- MCMaxLane
INVARIANTS
    TypeOK
    QueuedHasEntry
    RunningHasWorker
    OneRefresher
PROPERTIES
    Drains
    DepthServed
