SPECIFICATION FairSpec
CONSTANTS
    c1 = c1
    c2 = c2
    Calls = {c1, c2}
    Requests <- SomeRequests
    Tables <- SomeTables
    Values = {1, 2}
    Null = Null
    None = None
    MaxFaults = 1
INVARIANTS
    CreateManyAccounts
    UpsertAnswers
    ReturnedAreUpdated
PROPERTIES
    CallsReturn
CHECK_DEADLOCK FALSE
