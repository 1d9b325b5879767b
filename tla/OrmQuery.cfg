SPECIFICATION QuerySpec
CONSTANTS
    Identifiers <- SomeColumns
    KeyOrder <- Keys
    GoValues <- SomeValues
    Nesting <- SomeNesting
    Wheres <- SomeWheres
    Patches <- SomePatches
    Limits = {0, 3}
    Offsets = {0, 4}
    Rows <- SomeRows
INVARIANTS
    MeansWhere
    BindsOwnValues
