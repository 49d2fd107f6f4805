SPECIFICATION Spec
CONSTANTS
    NumReplicas = 3
    NumTask = 4
    Costs = {1}
    MaxTime = 0
    Ratio = 100
    ReportCount = 3
INVARIANTS
    DealsInTurn
    AddsToShortest
PROPERTIES
    DriverSafety
    Terminates
