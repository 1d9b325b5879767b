SPECIFICATION Spec
CONSTANTS
    Types <- SomeTypes
    Apps <- SomeApps
    r1 = r1
    r2 = r2
    r3 = r3
    Requests = {r1, r2, r3}
    MaxDepth = 6
SYMMETRY Symmetry
INVARIANTS
    RefsResolve
    LateBuildsOnlyRead
CHECK_DEADLOCK FALSE
