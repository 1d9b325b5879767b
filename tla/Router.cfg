SPECIFICATION RouterSpec
CONSTANTS
    Patterns <- SomePatterns
    Parts = {"users", "me", "7"}
    MaxPathLen = 3
    MaxRoutes = 3
INVARIANTS
    FoundMatches
    MostSpecificFirst
