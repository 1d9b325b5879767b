SPECIFICATION FairModelSpec
CONSTANTS
    LowerOf <- LowerLetters
    Ascii <- AsciiLetters
    SqlDialects = {"pg", "mysql", "sqlite"}
    Rank <- ByteOrder
    Files <- Directory
    EmptyFiles = {7}
    Dialects = {"", "pg", "mysql"}
    Seconds <- Stamp
    Tokens <- TokenSet
    Attempts = 2
    MaxGenFaults = 1
    Processes = {"a1", "a2", "a3"}
    Configured = {"a1", "a2"}
    MaxMigFaults = 2
    Setups <- Situations
INVARIANTS
    LoadIsComplete
    GeneratorKeepsFiles
    GeneratedAgrees
    MigrateAccounts
PROPERTIES
    MigrationsReturn
CHECK_DEADLOCK FALSE
