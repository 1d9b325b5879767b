SPECIFICATION FairSpec
CONSTANTS
    e1 = e1
    e2 = e2
    e3 = e3
    Engines = {e1, e2}
    Versions = {1, 2, 3}
    BlankChoices = {{}, {2}}
    StepChoices = {0, 1}
    MaxFaults = 2
INVARIANTS
    SchemaMatchesTable
    NoHole
    CountIsWork
    UpIsComplete
PROPERTIES
    CallsReturn
