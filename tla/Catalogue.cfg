CONSTANTS
    TableNames = {"t", "u", "T", "v"}
    Lower <- MCLower
    Definitions <- MCDefinitions
    ColumnLists <- MCColumnLists
    Code <- MCCode
    Garbage = {7}
    Files <- MCFiles
    Queries <- MCQueries
    NameOrder <- MCNameOrder
    MaxStatements = 2
    MaxRestarts = 1
    MaxCalls = 3
SPECIFICATION Spec
INVARIANTS
    SurvivesRestart
    IndexesKnowTheirTable
    IndexesAreFound
    NestedInOrder
CHECK_DEADLOCK FALSE
