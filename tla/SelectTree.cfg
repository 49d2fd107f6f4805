SPECIFICATION Spec
CONSTANTS
    MaxSelects = 4
    MaxQueries = 2
    MaxAsked = 2
    Resources <- MCResources
INVARIANTS
    SubselectsAtHome
    
    AllScansKnown
PROPERTY
    SameAnswer
CHECK_DEADLOCK FALSE
