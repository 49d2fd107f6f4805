SPECIFICATION Spec
CONSTANTS
    Tables <- MCTables
    Indexes <- MCIndexes
    TableSize <- MCTableSize
    IndexSize <- MCIndexSize
    Hash <- MCHash
    Plans <- MCPlans
    Scale = 4
    MaxSizes = {0, 17}
    MaxLoads = 5
    Exact = 16
    Spacings = {1, 2, 4}
    Fetch = 4
INVARIANTS
    WithinBudget
    LoadingCostInRange
    NewestLeavesLast
PROPERTY
    LoadingEnds
CHECK_DEADLOCK FALSE
