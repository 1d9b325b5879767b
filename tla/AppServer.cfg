SPECIFICATION ServerSpec
CONSTANTS
    a1 = a1
    a2 = a2
    c1 = c1
    c2 = c2
    c3 = c3
    Adapters = {a1, a2}
    Nil = Nil
    Dialects = {"mysql", "pg"}
    Callers = {c1, c2, c3}
    MaxChanges = 3
SYMMETRY Symmetry
INVARIANTS
    CacheCoherent
    OneClientPerChange
    AnswersInForce
    NilMeansDrained
CHECK_DEADLOCK FALSE
