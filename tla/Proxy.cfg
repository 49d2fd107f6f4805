SPECIFICATION ProxySpec
CONSTANTS
    Rests = {4, 5}
    Results <- MCResults
    MaxQueries = 2
INVARIANT
    InStep
PROPERTY
    EveryQueryAnswered
CHECK_DEADLOCK FALSE
