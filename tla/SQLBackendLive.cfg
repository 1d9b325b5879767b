SPECIFICATION FairSpec
CONSTANTS
    j1 = j1
    j2 = j2
    n1 = n1
    n2 = n2
    w1 = w1
    w2 = w2
    Jobs = {j1, j2}
    Nodes = {n1}
    Workers = {w1, w2}
    NodeOf <- OneNode
    Skew <- SameClock
    MaxConns = 3
    RetryDelay = 1
    NoJob = NoJob
    MaxTime = 0
    MaxFailures = 1
    MaxFaults = 1
    MaxClosers = 2
PROPERTIES
    QueuedEventuallyHandled
    WorkerStops
