SPECIFICATION Spec
CONSTANTS
    j1 = j1
    j2 = j2
    n1 = n1
    n2 = n2
    w1 = w1
    w2 = w2
    Jobs = {j1, j2}
    Nodes = {n1, n2}
    Workers = {w1, w2}
    NodeOf <- TwoNodes
    Skew <- SkewedClocks
    MaxConns = 2
    RetryDelay = 1
    NoJob = NoJob
    MaxTime = 1
    MaxFailures = 1
    MaxFaults = 1
    MaxClosers = 0
SYMMETRY JobSymmetry
INVARIANTS
    MutualExclusion
    NoSilentLoss
    StrandedOnlyByFault
PROPERTIES
    HandledNeverRerun
    ImplementsLifecycle
