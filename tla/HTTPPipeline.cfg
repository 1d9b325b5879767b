SPECIFICATION Spec
CONSTANTS
    r1 = r1
    r2 = r2
    x1 = x1
    x2 = x2
    Requests = {r1, r2}
    Ctxs = {x1, x2}
    Chains <- SomeChains
    Handlers <- SomeHandlers
    None = None
SYMMETRY Symmetry
INVARIANTS
    CtxNotShared
    RoleGuardsHandler
    
    CountedAsSent
