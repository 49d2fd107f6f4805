SPECIFICATION SmartSpec
CONSTANTS
    NumReplicas = 2
    NumTask = 3
    Costs = {0, 2}
    MaxTime = 1
    Ratio = 100
    ReportCount = 2
    Garbage = {0, 7}
INVARIANTS
    NeverUnderestimates
    ChargedWhereCheapest
